---- MODULE Spec2Model ----
(***************************************************************************)
(* A model of otterseq's algorithmic cores and of the file handling around *)
(* them:                                                                   *)
(*   - OtterPCA.match_case_controls (src/src/otterseq/pca.py), the         *)
(*     case-control matcher over principal components;                     *)
(*   - check_multi_allelic and read_fam_file (src/src/otterseq/utils.py);  *)
(*   - OtterSNP.get_common_snp with _process_bim_files and                 *)
(*     _find_common_snps, and OtterSNP.merge_files                         *)
(*     (src/src/otterseq/snp.py).                                          *)
(* Each has its own specification over the shared variables:               *)
(*   Spec      a call of match_case_controls                               *)
(*   SpecVal   a call of check_multi_allelic                               *)
(*   SpecFam   a call of read_fam_file                                     *)
(*   SpecSnp   a call of _find_common_snps or of get_common_snp            *)
(*   SpecMerge a call of merge_files                                       *)
(*   SpecListing a call get_common_snp(filepath) on an existing directory  *)
(* OtterQC.qc (src/src/otterseq/qc.py) and                                 *)
(* OtterOps.run_logistic_regression (src/src/otterseq/operations.py) are   *)
(* modelled with the files they write and the commands they run:           *)
(*   SpecQc    a call of qc                                                *)
(*   SpecLr    a call of run_logistic_regression; SpecLrLive adds that     *)
(*             the call goes on while it can                               *)
(***************************************************************************)
EXTENDS Integers, Sequences, FiniteSets, TLC

VARIABLES
    \* ---- match_case_controls: the inputs of one call
    fam_exists,        \* os.path.isfile(filename + ".fam")
    pca_exists,        \* os.path.isfile(filename + ".eigenvec")
    fam_rows,          \* rows of the .fam file: [fid, iid, pheno]
    pca_rows,          \* rows of the .eigenvec file: [fid, iid, pc1]
    n_controls,        \* the n_controls argument
    unique_controls,   \* the unique_controls argument
    \* ---- match_case_controls: the locals of the call
    pc,                \* position of the call
    merged_df,         \* the joined table with its fid_iid column
    case_i,            \* index of the next row of cases_pcs_dist (unique loop)
    matched_controls,  \* the set of matched composite keys
    rankings,          \* the argsort result used for each case so far
    selections,        \* the keys each processed case added to matched_controls
    outcome,           \* "none", "returned" or the exception raised, with the file it names
    merged_df_matched, \* the returned table
    \* ---- check_multi_allelic
    rs_ids,            \* the list argument
    val_outcome,       \* "none", "ok" or "MultiAllelicError"
    \* ---- read_fam_file
    fam_file_exists,   \* os.path.isfile(filename), with its ".fam" suffix
    fam_file_rows,     \* rows of the file: [sex, pheno]
    vars_to_string,    \* the vars_to_string argument
    fam_df,            \* the returned table
    fam_outcome,       \* "none", "returned" or the exception raised
    \* ---- get_common_snp and _find_common_snps
    entry,             \* the function called: "get_common_snp" or "_find_common_snps"
    dir_exists,        \* os.path.isdir(filepath)
    dir_files,         \* os.listdir(filepath): [bim, ids, bed] for each file
    write,             \* the write argument
    outpath,           \* the outpath argument: "None" or a directory
    outpath_isdir,     \* os.path.isdir(outpath)
    out_file,          \* outpath/common_snps.txt: [exists, text]
    file_i,            \* index of the next file of bim_files
    snp_outcome,       \* "none", "returned" or the exception raised
    snp_sets,          \* the list of sets _find_common_snps works on
    snp_pc,            \* position of the call
    snp_i,             \* index of the next set of snp_sets[1:] to intersect
    common_snps,       \* the running intersection
    common_list,       \* the sorted list _find_common_snps returns
    \* ---- merge_files
    merge_outpath,     \* the outpath argument of merge_files
    only_common,       \* the only_common argument
    merge_list,        \* outpath/merge_list.txt: [exists, text]
    created_dirs,      \* the directories os.makedirs has created
    commands,          \* the commands passed to subprocess.run
    \* ---- OtterQC.qc
    qc,                \* the arguments, files and locals of the call, or
                       \* [pc |-> "idle"] when there is none
    \* ---- OtterOps.run_logistic_regression
    lr                 \* the arguments, files and locals of the call, or
                       \* [pc |-> "idle"] when there is none

pcaVars == <<fam_exists, pca_exists, fam_rows, pca_rows, n_controls,
             unique_controls, pc, merged_df, case_i, matched_controls,
             rankings, selections, outcome, merged_df_matched>>
famVars == <<fam_file_exists, fam_file_rows, vars_to_string, fam_df,
             fam_outcome>>
opsVars == <<qc, lr>>
valVars == <<rs_ids, val_outcome, famVars, opsVars>>
dirVars == <<entry, dir_exists, dir_files, write, outpath, outpath_isdir,
             merge_outpath, only_common>>
mergeVars == <<merge_list, created_dirs, commands>>
snpVars == <<dirVars, out_file, file_i, snp_outcome, snp_sets, snp_pc, snp_i,
             common_snps, common_list, mergeVars>>
vars == <<pcaVars, valVars, snpVars>>

----------------------------------------------------------------------------
\* Bounds of the model.

\* number of distinct samples a .fam/.eigenvec pair may mention
MaxSamples == 4
\* principal-component values are drawn from 0..MaxPC
MaxPC == 1
\* n_controls is drawn from 0..MaxNControls
MaxNControls == 2

\* a list of identifiers given to check_multi_allelic has at most MaxIds
MaxIds == 3
\* a list of sets given to _find_common_snps has at most MaxSets sets
MaxSets == 3
\* a directory given to get_common_snp lists at most MaxFiles files
MaxFiles == 3
\* a .bim file has at most MaxBimLen rows
MaxBimLen == 2
\* a .fam file given to read_fam_file has at most MaxFamRows rows
MaxFamRows == 2
\* its sex and phenotype codes are drawn from 0..MaxCode
MaxCode == 3
\* exclude_vars holds at most MaxExclude variants
MaxExclude == 1
\* the .eigenvec and .fam files of run_logistic_regression have at most
\* MaxLrRows rows
MaxLrRows == 1

\* Phenotype codes of the .fam format.
CasePheno == 2
ControlPheno == 1

Min(a, b) == IF a <= b THEN a ELSE b
Max(a, b) == IF a >= b THEN a ELSE b

RECURSIVE SeqToSet(_)
SeqToSet(s) == IF s = <<>> THEN {} ELSE {Head(s)} \cup SeqToSet(Tail(s))

\* The identities of the samples. Samples 1 and 2 are distinct
\* (family_id, individual_id) pairs; all identifiers are non-numeric so
\* that both files parse them as strings.
SampleIds ==
    << [fid |-> "a-b", iid |-> "c"],
       [fid |-> "a",   iid |-> "b-c"],
       [fid |-> "d",   iid |-> "e"],
       [fid |-> "f",   iid |-> "g"],
       [fid |-> "h",   iid |-> "i"] >>

\* pl.concat_str(["fid", "iid"], separator="-")
ConcatStr(fid, iid) == fid \o "-" \o iid

----------------------------------------------------------------------------
\* The files of one match_case_controls call.

\* What a .fam/.eigenvec pair says about one sample: it is a control or a
\* case with a row in both files, or it has an .eigenvec row and no .fam row
\* (its pheno is null after the join, and its pc1, which is never read, is
\* 0), or it is a case with a .fam row and no .eigenvec row.
SlotStatus ==
    [inpca : {TRUE}, pcv : 0..MaxPC, infam : {TRUE},
     pheno : {ControlPheno, CasePheno}]
    \cup [inpca : {TRUE}, pcv : {0}, infam : {FALSE}, pheno : {0}]
    \cup [inpca : {FALSE}, pcv : {0}, infam : {TRUE}, pheno : {CasePheno}]

\* The statuses that give different files when only the .fam file exists
\* (its rows do not hold pcv), only the .eigenvec file (its rows do not hold
\* pheno) or neither: the same files as SlotStatus gives, each once.
SlotStatusFor(fam, pca) ==
    IF fam /\ pca THEN SlotStatus
    ELSE IF fam THEN {s \in SlotStatus : s.pcv = 0 /\ (s.infam => s.inpca)}
    ELSE IF pca THEN {s \in SlotStatus : s.inpca => s.pheno = ControlPheno}
    ELSE {s \in SlotStatus : ~s.inpca}

RECURSIVE PcaRowsOf(_, _)
PcaRowsOf(st, i) ==
    IF i > MaxSamples THEN <<>>
    ELSE (IF st[i].inpca
          THEN << [fid |-> SampleIds[i].fid, iid |-> SampleIds[i].iid,
                   pc1 |-> st[i].pcv] >>
          ELSE <<>>) \o PcaRowsOf(st, i + 1)

RECURSIVE FamRowsOf(_, _)
FamRowsOf(st, i) ==
    IF i > MaxSamples THEN <<>>
    ELSE (IF st[i].infam
          THEN << [fid |-> SampleIds[i].fid, iid |-> SampleIds[i].iid,
                   pheno |-> st[i].pheno] >>
          ELSE <<>>) \o FamRowsOf(st, i + 1)

----------------------------------------------------------------------------
\* match_case_controls, src/src/otterseq/pca.py

\* pca_df.join(other=fam_df[["fid", "iid", "pheno"]], on=["fid", "iid"],
\* how="left"): every .eigenvec row, in order, once per .fam row of the same
\* (fid, iid), or once with a null pheno when there is none. pheno is <<>>
\* for null and <<code>> otherwise.
\* LeftJoin with the two key columns compared crosswise
RECURSIVE LeftJoinSwappedKeys(_, _)
LeftJoinSwappedKeys(left, right) ==
    IF left = <<>> THEN <<>>
    ELSE LET r == Head(left)
             Same(f) == f.fid = r.iid /\ f.iid = r.fid
             hits == SelectSeq(right, Same)
             out == IF hits = <<>>
                    THEN << [fid |-> r.fid, iid |-> r.iid, pc1 |-> r.pc1,
                             pheno |-> <<>>] >>
                    ELSE [j \in 1..Len(hits) |->
                            [fid |-> r.fid, iid |-> r.iid, pc1 |-> r.pc1,
                             pheno |-> << hits[j].pheno >>]]
         IN  out \o LeftJoinSwappedKeys(Tail(left), right)

RECURSIVE LeftJoin(_, _)
LeftJoin(left, right) ==
    IF left = <<>> THEN <<>>
    ELSE LET r == Head(left)
             Same(f) == f.fid = r.fid /\ f.iid = r.iid
             hits == SelectSeq(right, Same)
             out == IF hits = <<>>
                    THEN << [fid |-> r.fid, iid |-> r.iid, pc1 |-> r.pc1,
                             pheno |-> <<>>] >>
                    ELSE [j \in 1..Len(hits) |->
                            [fid |-> r.fid, iid |-> r.iid, pc1 |-> r.pc1,
                             pheno |-> << hits[j].pheno >>]]
         IN  out \o LeftJoin(Tail(left), right)

\* merged_df.with_columns(pl.concat_str(...).alias("fid_iid"))
WithFidIid(df) ==
    [k \in 1..Len(df) |->
        [fid |-> df[k].fid, iid |-> df[k].iid, pc1 |-> df[k].pc1,
         pheno |-> df[k].pheno, fid_iid |-> ConcatStr(df[k].fid, df[k].iid)]]

\* pl.col("pheno") == 2 and pl.col("pheno") == 1; a null pheno matches neither
IsCase(row) == row.pheno = << CasePheno >>
IsControl(row) == row.pheno = << ControlPheno >>

cases == SelectSeq(merged_df, IsCase)
controls == SelectSeq(merged_df, IsControl)

\* Distance without the absolute value
DistanceSigned(a, b) == a - b

\* distance_matrix(cases_pcs, controls_pcs) over the single pc column: the
\* Euclidean distance of two one-dimensional vectors is |a - b|.
Distance(a, b) == IF a >= b THEN a - b ELSE b - a
cases_pcs_dist ==
    [i \in 1..Len(cases) |->
        [j \in 1..Len(controls) |-> Distance(cases[i].pc1, controls[j].pc1)]]

Perms(m) == {p \in [1..m -> 1..m] : \A a, b \in 1..m : p[a] = p[b] => a = b}

\* np.argsort(case_dist): an index order in which the distances ascend.
\* The default kind is quicksort, which numpy documents as not stable, so
\* the order among equal distances is any order.
ArgSort(d) ==
    {p \in Perms(Len(d)) : \A a, b \in 1..Len(d) : a < b => d[p[a]] <= d[p[b]]}

\* ScanRanking forgetting what was accepted when the ranking ends before
\* n controls are found
RECURSIVE ScanRankingDropShort(_, _, _, _, _)
ScanRankingDropShort(control_idx, k, seen, matched, n) ==
    IF k > Len(control_idx) THEN {}
    ELSE LET control_id == controls[control_idx[k]].fid_iid
             fresh == control_id \notin seen
             seen2 == IF fresh THEN seen \cup {control_id} ELSE seen
             matched2 == IF fresh THEN matched + 1 ELSE matched
         IN  IF matched2 = n THEN seen2
             ELSE ScanRankingDropShort(control_idx, k + 1, seen2, matched2, n)

\* ScanRanking counting every control it reads, accepted or not
RECURSIVE ScanRankingCountAll(_, _, _, _, _)
ScanRankingCountAll(control_idx, k, seen, matched, n) ==
    IF k > Len(control_idx) THEN seen
    ELSE LET control_id == controls[control_idx[k]].fid_iid
             seen2 == seen \cup {control_id}
             matched2 == matched + 1
         IN  IF matched2 = n THEN seen2
             ELSE ScanRankingCountAll(control_idx, k + 1, seen2, matched2, n)

\* The inner loop of the unique branch for one case: control_idx is the
\* case's ranking, from position k on; seen is matched_controls and matched
\* the counter. The break test follows the membership test in each iteration.
RECURSIVE ScanRanking(_, _, _, _, _)
ScanRanking(control_idx, k, seen, matched, n) ==
    IF k > Len(control_idx) THEN seen
    ELSE LET control_id == controls[control_idx[k]].fid_iid
             fresh == control_id \notin seen
             seen2 == IF fresh THEN seen \cup {control_id} ELSE seen
             matched2 == IF fresh THEN matched + 1 ELSE matched
         IN  IF matched2 = n THEN seen2
             ELSE ScanRanking(control_idx, k + 1, seen2, matched2, n)

\* PySliceTo taking one element too many
PySliceToOffByOne(seq, n) == SubSeq(seq, 1, Min(n + 1, Len(seq)))

\* PySliceTo keeping the n-th element only
PySliceAt(seq, n) == IF n >= 1 /\ n <= Len(seq) THEN << seq[n] >> ELSE <<>>

\* seq[:n] of Python
PySliceTo(seq, n) ==
    IF n >= 0 THEN SubSeq(seq, 1, Min(n, Len(seq)))
    ELSE SubSeq(seq, 1, Max(0, Len(seq) + n))

\* controls["fid_iid"][idx] for a list of indices, as a set
KeysAt(idx) == {controls[idx[k]].fid_iid : k \in 1..Len(idx)}

\* The unique branch as a whole, lines 305-316: the cases from i on scan
\* their rankings ranks[i] in turn, seen being matched_controls.
RECURSIVE UniqueFold(_, _, _, _)
UniqueFold(ranks, i, seen, n) ==
    IF i > Len(ranks) THEN seen
    ELSE UniqueFold(ranks, i + 1, ScanRanking(ranks[i], 1, seen, 0, n), n)

\* The non-unique branch as a whole, lines 319-325: the keys at the first n
\* positions of every case's ranking.
NonUniqueKeys(ranks, n) ==
    UNION {KeysAt(PySliceTo(ranks[i], n)) : i \in 1..Len(ranks)}

\* FilterMatched without the `| (pheno == 2)` disjunct
FilterMatchedKeysOnly(df, matched) ==
    LET Keep(row) == row.fid_iid \in matched
    IN  SelectSeq(df, Keep)

\* merged_df.filter(fid_iid.is_in(matched_controls_list) | (pheno == 2))
FilterMatched(df, matched) ==
    LET Keep(row) == row.fid_iid \in matched \/ IsCase(row)
    IN  SelectSeq(df, Keep)

PcaIdle ==
    /\ fam_exists = FALSE /\ pca_exists = FALSE
    /\ fam_rows = <<>> /\ pca_rows = <<>>
    /\ n_controls = 0 /\ unique_controls = FALSE
    /\ pc = "idle" /\ merged_df = <<>> /\ case_i = 1
    /\ matched_controls = {} /\ rankings = <<>> /\ selections = <<>>
    /\ outcome = "none" /\ merged_df_matched = <<>>

FamIdle ==
    /\ fam_file_exists = FALSE /\ fam_file_rows = <<>>
    /\ vars_to_string = FALSE /\ fam_df = <<>> /\ fam_outcome = "idle"

\* no call of qc, no call of run_logistic_regression
QcIdle == qc = [pc |-> "idle"]
LrIdle == lr = [pc |-> "idle"]

OpsIdle == QcIdle /\ LrIdle

ValIdle == rs_ids = <<>> /\ val_outcome = "idle" /\ FamIdle /\ OpsIdle

MergeIdle ==
    /\ merge_outpath = "None" /\ only_common = FALSE
    /\ merge_list = [exists |-> FALSE, text |-> <<>>]
    /\ created_dirs = {} /\ commands = <<>>

SnpIdle ==
    /\ MergeIdle
    /\ entry = "none" /\ dir_exists = FALSE /\ dir_files = <<>>
    /\ write = FALSE /\ outpath = "None" /\ outpath_isdir = FALSE
    /\ out_file = [exists |-> FALSE, text |-> <<>>]
    /\ file_i = 1 /\ snp_outcome = "none"
    /\ snp_sets = <<>> /\ snp_pc = "idle" /\ snp_i = 1
    /\ common_snps = {} /\ common_list = <<>>

\* A call of match_case_controls on some pair of files. A file that exists
\* has at least one row (an empty file does not parse).
Init ==
    /\ fam_exists \in BOOLEAN
    /\ pca_exists \in BOOLEAN
    /\ \E st \in [1..MaxSamples -> SlotStatusFor(fam_exists, pca_exists)] :
          /\ fam_rows = IF fam_exists THEN FamRowsOf(st, 1) ELSE <<>>
          /\ pca_rows = IF pca_exists THEN PcaRowsOf(st, 1) ELSE <<>>
    /\ fam_exists => fam_rows # <<>>
    /\ pca_exists => pca_rows # <<>>
    /\ n_controls \in 0..MaxNControls
    /\ unique_controls \in BOOLEAN
    /\ pc = "start"
    /\ merged_df = <<>>
    /\ case_i = 1
    /\ matched_controls = {}
    /\ rankings = <<>>
    /\ selections = <<>>
    /\ outcome = "none"
    /\ merged_df_matched = <<>>
    /\ ValIdle
    /\ SnpIdle

\* the two tests in the other order
NotFoundFilePcaFirst == IF ~pca_exists THEN ".eigenvec" ELSE ".fam"

\* lines 274-281: the file the error names, the .fam file being tested first
NotFoundFile == IF ~fam_exists THEN ".fam" ELSE ".eigenvec"

\* lines 271-281: a missing .fam or .eigenvec file
RaiseNotFound ==
    /\ pc = "start"
    /\ ~fam_exists \/ ~pca_exists
    /\ pc' = "done"
    /\ outcome' = "FileExistsError: " \o NotFoundFile \o " was not found"
    /\ UNCHANGED <<fam_exists, pca_exists, fam_rows, pca_rows, n_controls,
                   unique_controls, merged_df, case_i, matched_controls,
                   rankings, selections, merged_df_matched>>
    /\ UNCHANGED <<valVars, snpVars>>

\* lines 283-305: read both files, join, add the key, partition, distances
LoadTables ==
    /\ pc = "start"
    /\ fam_exists /\ pca_exists
    /\ merged_df' = WithFidIid(LeftJoin(pca_rows, fam_rows))
    /\ pc' = IF unique_controls THEN "unique" ELSE "nonunique"
    /\ matched_controls' = {}
    /\ UNCHANGED <<fam_exists, pca_exists, fam_rows, pca_rows, n_controls,
                   unique_controls, case_i, rankings, selections, outcome,
                   merged_df_matched>>
    /\ UNCHANGED <<valVars, snpVars>>

\* lines 307-316: one iteration of `for case_dist in cases_pcs_dist`
MatchUniqueCase ==
    /\ pc = "unique"
    /\ case_i <= Len(cases)
    /\ \E control_idx \in ArgSort(cases_pcs_dist[case_i]) :
          LET after == ScanRanking(control_idx, 1, matched_controls, 0,
                                   n_controls)
          IN  /\ matched_controls' = after
              /\ selections' = Append(selections, after \ matched_controls)
              /\ rankings' = Append(rankings, control_idx)
    /\ case_i' = case_i + 1
    /\ UNCHANGED <<fam_exists, pca_exists, fam_rows, pca_rows, n_controls,
                   unique_controls, pc, merged_df, outcome,
                   merged_df_matched>>
    /\ UNCHANGED <<valVars, snpVars>>

\* lines 319-325: np.argsort(cases_pcs_dist, axis=1)[:, :n_controls]
MatchNonUnique ==
    /\ pc = "nonunique"
    /\ \E sorted \in [1..Len(cases) -> Perms(Len(controls))] :
          /\ \A i \in 1..Len(cases) : sorted[i] \in ArgSort(cases_pcs_dist[i])
          /\ rankings' = sorted
          /\ selections' =
                [i \in 1..Len(cases) |-> KeysAt(PySliceTo(sorted[i], n_controls))]
          /\ matched_controls' =
                UNION {KeysAt(PySliceTo(sorted[i], n_controls)) :
                          i \in 1..Len(cases)}
    /\ pc' = "filter"
    /\ case_i' = Len(cases) + 1
    /\ UNCHANGED <<fam_exists, pca_exists, fam_rows, pca_rows, n_controls,
                   unique_controls, merged_df, outcome, merged_df_matched>>
    /\ UNCHANGED <<valVars, snpVars>>

\* lines 327-333: filter the joined table and return it
FilterAndReturn ==
    /\ \/ pc = "filter"
       \/ pc = "unique" /\ case_i > Len(cases)
    /\ merged_df_matched' = FilterMatched(merged_df, matched_controls)
    /\ outcome' = "returned"
    /\ pc' = "done"
    /\ UNCHANGED <<fam_exists, pca_exists, fam_rows, pca_rows, n_controls,
                   unique_controls, merged_df, case_i, matched_controls,
                   rankings, selections>>
    /\ UNCHANGED <<valVars, snpVars>>

Next ==
    \/ RaiseNotFound
    \/ LoadTables
    \/ MatchUniqueCase
    \/ MatchNonUnique
    \/ FilterAndReturn

Spec == Init /\ [][Next]_vars

----------------------------------------------------------------------------
\* Properties of match_case_controls.

Returned == pc = "done" /\ outcome = "returned"

\* rows of a table with phenotype 2, and with phenotype 1
CaseRowsOf(df) == {k \in 1..Len(df) : df[k].pheno = << 2 >>}
ControlRowsOf(df) == {k \in 1..Len(df) : df[k].pheno = << 1 >>}

OccursIn(row, df) == \E k \in 1..Len(df) : df[k] = row

\* the composite keys of the controls, and whether no two controls share one
ControlKeys == {controls[j].fid_iid : j \in 1..Len(controls)}
DistinctControlKeys == Cardinality(ControlKeys) = Len(controls)

\* the composite keys of the control rows of the returned table
OutControlKeys ==
    {merged_df_matched[k].fid_iid : k \in ControlRowsOf(merged_df_matched)}

\* C1: once match_case_controls has returned, every row of the joined table
\* with phenotype 2 is a row of the returned table, and the returned table
\* has as many case rows as the joined table, whatever n_controls and
\* unique_controls are.
C1_CasePreservation ==
    Returned =>
        /\ \A k \in CaseRowsOf(merged_df) :
              OccursIn(merged_df[k], merged_df_matched)
        /\ Cardinality(CaseRowsOf(merged_df_matched))
              = Cardinality(CaseRowsOf(merged_df))

\* C1 witness: a call returned a table that keeps two cases and leaves out
\* a control.
C1_Witness ==
    /\ Returned
    /\ Cardinality(CaseRowsOf(merged_df)) >= 2
    /\ Cardinality(ControlRowsOf(merged_df_matched))
          < Cardinality(ControlRowsOf(merged_df))

\* the .fam rows with phenotype 2
FamCases == {j \in 1..Len(fam_rows) : fam_rows[j].pheno = 2}

HasPcaRow(j) ==
    \E i \in 1..Len(pca_rows) :
        pca_rows[i].fid = fam_rows[j].fid /\ pca_rows[i].iid = fam_rows[j].iid

\* C2 as stated, for n_controls >= 1: the returned table has as many case
\* rows as the .fam file, also when a case of the .fam file has no .eigenvec
\* row.
C2_Original ==
    (Returned /\ n_controls >= 1) =>
        Cardinality(CaseRowsOf(merged_df_matched)) = Cardinality(FamCases)

\* C2 amended: the returned table has one case row for each pair of an
\* .eigenvec row and a .fam row of phenotype 2 with the same (fid, iid); a
\* case of the .fam file without an .eigenvec row has no row in it.
C2_CasesOfJoin ==
    Returned =>
        /\ Cardinality(CaseRowsOf(merged_df_matched))
              = Cardinality({ij \in (1..Len(pca_rows)) \X FamCases :
                    /\ pca_rows[ij[1]].fid = fam_rows[ij[2]].fid
                    /\ pca_rows[ij[1]].iid = fam_rows[ij[2]].iid})
        /\ \A j \in FamCases :
              ~HasPcaRow(j) =>
                  \A k \in 1..Len(merged_df_matched) :
                      ~(/\ merged_df_matched[k].fid = fam_rows[j].fid
                        /\ merged_df_matched[k].iid = fam_rows[j].iid)

\* C2 witness: a call returned for a .fam file with one case that has an
\* .eigenvec row and one that has none.
C2_Witness ==
    /\ Returned
    /\ \E j \in FamCases : HasPcaRow(j)
    /\ \E j \in FamCases : ~HasPcaRow(j)

\* C3, for n_controls >= 1: in unique mode, after any number of cases, the
\* selections of two different cases share no control, and the control rows
\* of the returned table have pairwise distinct composite keys.
C3_UniqueControls ==
    (unique_controls /\ n_controls >= 1) =>
        /\ \A a, b \in 1..Len(selections) :
              a # b => selections[a] \cap selections[b] = {}
        /\ Returned =>
              \A a, b \in ControlRowsOf(merged_df_matched) :
                  a # b => merged_df_matched[a].fid_iid
                              # merged_df_matched[b].fid_iid

\* C4, for n_controls >= 1: in unique mode, when there are at least
\* n_controls * nCases controls, the matched set has exactly
\* n_controls * nCases controls and every case received exactly n_controls
\* of them.
C4_ExactCount ==
    (Returned /\ unique_controls /\ n_controls >= 1
        /\ Len(controls) >= n_controls * Len(cases)) =>
        /\ Cardinality(matched_controls) = n_controls * Len(cases)
        /\ \A i \in 1..Len(selections) :
              Cardinality(selections[i]) = n_controls

\* The fold C5 describes, over control rows: the cases in row order, each
\* taking from its ranking the first n rows no earlier case has taken, or all
\* of them when fewer are left. taken is the set of rows taken so far.
Available(ranking, taken) ==
    LET Free(j) == j \notin taken IN SelectSeq(ranking, Free)

RECURSIVE GreedyFold(_, _, _, _)
GreedyFold(ranks, i, taken, n) ==
    IF i > Len(ranks) THEN taken
    ELSE LET free == Available(ranks[i], taken)
             mine == SubSeq(free, 1, Min(Max(n, 0), Len(free)))
         IN  GreedyFold(ranks, i + 1, taken \cup SeqToSet(mine), n)

\* C5, for controls of pairwise distinct composite keys: in unique mode the
\* matched set is the result of the greedy fold over the cases' rankings.
C5_GreedyFold ==
    (Returned /\ unique_controls /\ DistinctControlKeys) =>
        matched_controls
            = {controls[j].fid_iid : j \in GreedyFold(rankings, 1, {}, n_controls)}

\* the ranking of one row of distances that a stable sort gives: ascending
\* distance, and ascending index among equal distances
StableRanking(d) ==
    CHOOSE p \in Perms(Len(d)) :
        \A a, b \in 1..Len(d) :
            a < b => \/ d[p[a]] < d[p[b]]
                     \/ d[p[a]] = d[p[b]] /\ p[a] < p[b]

\* C6, for n_controls >= 1 and controls of pairwise distinct composite keys:
\* in non-unique mode the matched set is the union over the cases of the
\* first n_controls controls of the case's stable ranking.
C6_NearestStable ==
    (Returned /\ ~unique_controls /\ n_controls >= 1 /\ DistinctControlKeys) =>
        matched_controls
            = UNION {KeysAt(SubSeq(StableRanking(cases_pcs_dist[i]), 1,
                                   Min(n_controls, Len(controls)))) :
                        i \in 1..Len(cases)}

\* the rows of controls among the first n_controls of case i's ranking
NearestOf(i) == SeqToSet(SubSeq(rankings[i], 1, Min(n_controls, Len(controls))))

NoSharedNearest ==
    \A a, b \in 1..Len(cases) : a # b => NearestOf(a) \cap NearestOf(b) = {}

C8_RejectsNonPositive ==
    n_controls <= 0 =>
        /\ outcome # "returned"
        /\ merged_df = <<>>
        /\ matched_controls = {}

----------------------------------------------------------------------------
\* Variant identifiers. An identifier "rs" followed by digits is the
\* sequence of its digits: rs1, rs10, rs2, rs3. Digits compare as their
\* characters do.
RsIds == { <<1>>, <<1, 0>>, <<2>>, <<3>> }

\* a < b for two Python strings with a common "rs" prefix: the first
\* differing character decides, and a proper prefix comes first
RECURSIVE StrLess(_, _)
StrLess(a, b) ==
    IF b = <<>> THEN FALSE
    ELSE IF a = <<>> THEN TRUE
    ELSE IF Head(a) # Head(b) THEN Head(a) < Head(b)
    ELSE StrLess(Tail(a), Tail(b))

\* the order of the identifiers' numbers
NumLess(a, b) == Len(a) < Len(b) \/ (Len(a) = Len(b) /\ StrLess(a, b))

\* sorted() in the order of the identifiers' numbers
RECURSIVE SortedByNumber(_)
SortedByNumber(S) ==
    IF S = {} THEN <<>>
    ELSE LET m == CHOOSE x \in S : \A y \in S \ {x} : NumLess(x, y)
         IN  << m >> \o SortedByNumber(S \ {m})

\* sorted(common_snps): the elements of the set in ascending string order
RECURSIVE Sorted(_)
Sorted(S) ==
    IF S = {} THEN <<>>
    ELSE LET m == CHOOSE x \in S : \A y \in S \ {x} : StrLess(x, y)
         IN  << m >> \o Sorted(S \ {m})

----------------------------------------------------------------------------
\* check_multi_allelic, src/src/otterseq/utils.py

\* the test with >= in place of >
HasDuplicatesOrEqual(ids) == Len(ids) >= Cardinality(SeqToSet(ids))

\* len(rs_ids) > len(set(rs_ids))
HasDuplicates(ids) == Len(ids) > Cardinality(SeqToSet(ids))

RECURSIVE SeqsUpTo(_, _)
SeqsUpTo(S, n) ==
    IF n = 0 THEN { <<>> }
    ELSE LET shorter == SeqsUpTo(S, n - 1)
         IN  shorter \cup {Append(q, x) : q \in shorter, x \in S}

\* A call of check_multi_allelic on some list of identifiers.
InitVal ==
    /\ rs_ids \in SeqsUpTo(RsIds, MaxIds)
    /\ val_outcome = "none"
    /\ FamIdle
    /\ OpsIdle
    /\ PcaIdle
    /\ SnpIdle

\* line 20-21: the list has a repeated identifier
RaiseMultiAllelic ==
    /\ val_outcome = "none"
    /\ HasDuplicates(rs_ids)
    /\ val_outcome' = "MultiAllelicError"
    /\ UNCHANGED <<rs_ids, famVars, opsVars, pcaVars, snpVars>>

\* line 20: it has none, and the function returns None
ReturnNone ==
    /\ val_outcome = "none"
    /\ ~HasDuplicates(rs_ids)
    /\ val_outcome' = "ok"
    /\ UNCHANGED <<rs_ids, famVars, opsVars, pcaVars, snpVars>>

NextVal == RaiseMultiAllelic \/ ReturnNone

SpecVal == InitVal /\ [][NextVal]_vars

\* C9: check_multi_allelic returns exactly when the identifiers at any two
\* different positions differ, and raises MultiAllelicError exactly when two
\* positions hold the same identifier; it returns on the empty list.
C9_CheckMultiAllelic ==
    val_outcome # "none" =>
        /\ val_outcome = "ok"
              <=> \A a, b \in 1..Len(rs_ids) : a # b => rs_ids[a] # rs_ids[b]
        /\ val_outcome = "MultiAllelicError"
              <=> \E a, b \in 1..Len(rs_ids) : a # b /\ rs_ids[a] = rs_ids[b]
        /\ rs_ids = <<>> => val_outcome = "ok"

\* C9 witness: the call raised on a list whose first and third identifiers
\* are the same and whose second differs (rs1, rs2, rs1).
C9_Witness ==
    /\ val_outcome = "MultiAllelicError"
    /\ Len(rs_ids) = 3
    /\ rs_ids[1] = rs_ids[3]
    /\ rs_ids[1] # rs_ids[2]

----------------------------------------------------------------------------
\* read_fam_file, src/src/otterseq/utils.py (OtterPCA.read_fam_file in
\* src/src/otterseq/pca.py is the same code). A row is its sex and pheno
\* columns; the other four columns are returned as read.

\* lines 90-95: the sex_str column
SexStr(sex) ==
    IF sex = 2 THEN "female"
    ELSE IF sex = 1 THEN "male"
    ELSE "unknown"

\* lines 98-103: the pheno_str column
PhenoStr(pheno) ==
    IF pheno = 2 THEN "control"
    ELSE IF pheno = 1 THEN "case"
    ELSE "unknown"

\* A call of read_fam_file on some file, which may not exist; a file that
\* exists has at least one row.
InitFam ==
    /\ fam_file_exists \in BOOLEAN
    /\ fam_file_rows \in
          (IF fam_file_exists
           THEN SeqsUpTo([sex : 0..MaxCode, pheno : 0..MaxCode], MaxFamRows)
                    \ { <<>> }
           ELSE { <<>> })
    /\ vars_to_string \in BOOLEAN
    /\ fam_df = <<>>
    /\ fam_outcome = "none"
    /\ rs_ids = <<>> /\ val_outcome = "idle"
    /\ OpsIdle
    /\ PcaIdle
    /\ SnpIdle

\* lines 71-72: the file does not exist
RaiseFamNotFound ==
    /\ fam_outcome = "none"
    /\ ~fam_file_exists
    /\ fam_outcome' = "FileNotFoundError"
    /\ UNCHANGED <<fam_file_exists, fam_file_rows, vars_to_string, fam_df>>
    /\ UNCHANGED <<rs_ids, val_outcome, opsVars, pcaVars, snpVars>>

\* lines 74-86, 106: the table as read, vars_to_string being False
ReturnFamCodes ==
    /\ fam_outcome = "none"
    /\ fam_file_exists
    /\ ~vars_to_string
    /\ fam_df' = fam_file_rows
    /\ fam_outcome' = "returned"
    /\ UNCHANGED <<fam_file_exists, fam_file_rows, vars_to_string>>
    /\ UNCHANGED <<rs_ids, val_outcome, opsVars, pcaVars, snpVars>>

\* lines 74-106: the table with its sex_str and pheno_str columns
ReturnFamStrings ==
    /\ fam_outcome = "none"
    /\ fam_file_exists
    /\ vars_to_string
    /\ fam_df' = [k \in 1..Len(fam_file_rows) |->
                    [sex |-> fam_file_rows[k].sex,
                     pheno |-> fam_file_rows[k].pheno,
                     sex_str |-> SexStr(fam_file_rows[k].sex),
                     pheno_str |-> PhenoStr(fam_file_rows[k].pheno)]]
    /\ fam_outcome' = "returned"
    /\ UNCHANGED <<fam_file_exists, fam_file_rows, vars_to_string>>
    /\ UNCHANGED <<rs_ids, val_outcome, opsVars, pcaVars, snpVars>>

NextFam == RaiseFamNotFound \/ ReturnFamCodes \/ ReturnFamStrings

SpecFam == InitFam /\ [][NextFam]_vars

----------------------------------------------------------------------------
\* OtterSNP.get_common_snp, _process_bim_files and _find_common_snps,
\* src/src/otterseq/snp.py

\* the identifiers of the rows of .bim files
BimIds == { <<1, 0>>, <<2>> }

\* the identifiers of the sets given to _find_common_snps: rs1, rs10, rs2
SetIds == { <<1>>, <<1, 0>>, <<2>> }

\* the character that ends a line
NewLine == 10

\* bim_files: the listed files whose name ends in ".bim", in listing order
IsBim(f) == f.bim
\* the listing restricted to the .bim files that have rows
BimFilesWithRows ==
    LET HasRows(f) == f.bim /\ f.ids # <<>>
    IN  SelectSeq(dir_files, HasRows)
bim_files == SelectSeq(dir_files, IsBim)

\* what the loop of lines 259-260 writes: each identifier and a newline
\* the identifiers joined by newlines, the last line left open
RECURSIVE WrittenTextJoined(_)
WrittenTextJoined(list) ==
    IF list = <<>> THEN <<>>
    ELSE IF Len(list) = 1 THEN Head(list)
    ELSE Head(list) \o << NewLine >> \o WrittenTextJoined(Tail(list))

RECURSIVE WrittenText(_)
WrittenText(list) ==
    IF list = <<>> THEN <<>>
    ELSE Head(list) \o << NewLine >> \o WrittenText(Tail(list))

\* the text of a common_snps.txt left by an earlier run
OldText == << 3, NewLine >>

\* the loop of lines 207-213 keeping the last non-empty intersection
RECURSIVE IntersectFromKeepOnEmpty(_, _, _)
IntersectFromKeepOnEmpty(common, sets, k) ==
    IF k > Len(sets) THEN common
    ELSE LET c == common \cap sets[k]
         IN  IF c = {} THEN common
             ELSE IntersectFromKeepOnEmpty(c, sets, k + 1)

\* lines 207-213 as a function: the running intersection from set k on,
\* stopping at the first empty one
RECURSIVE IntersectFrom(_, _, _)
IntersectFrom(common, sets, k) ==
    IF k > Len(sets) THEN common
    ELSE LET c == common \cap sets[k]
         IN  IF c = {} THEN c
             ELSE IntersectFrom(c, sets, k + 1)

\* _find_common_snps as a function of its argument
FindCommonSnps(sets) ==
    IF sets = <<>> THEN <<>>
    ELSE Sorted(IntersectFrom(sets[1], sets, 2))

\* ProcessBimFiles reading no further once the sets read so far have no
\* identifier in common
RECURSIVE ProcessBimFilesUntilDisjoint(_, _, _)
ProcessBimFilesUntilDisjoint(files, k, sets) ==
    IF k > Len(files) THEN [error |-> "none", sets |-> sets]
    ELSE IF sets # <<>> /\ IntersectFrom(sets[1], sets, 2) = {}
    THEN [error |-> "none", sets |-> sets]
    ELSE IF files[k].ids = <<>>
    THEN ProcessBimFilesUntilDisjoint(files, k + 1, sets)
    ELSE IF HasDuplicates(files[k].ids)
    THEN [error |-> "MultiAllelicError", sets |-> sets]
    ELSE ProcessBimFilesUntilDisjoint(files, k + 1,
                                      Append(sets, SeqToSet(files[k].ids)))

\* lines 160-190 as a function: the loop over the .bim files from file k on,
\* sets being snp_sets; the error raised, if any, and the sets read
RECURSIVE ProcessBimFiles(_, _, _)
ProcessBimFiles(files, k, sets) ==
    IF k > Len(files) THEN [error |-> "none", sets |-> sets]
    ELSE IF files[k].ids = <<>> THEN ProcessBimFiles(files, k + 1, sets)
    ELSE IF HasDuplicates(files[k].ids)
    THEN [error |-> "MultiAllelicError", sets |-> sets]
    ELSE ProcessBimFiles(files, k + 1, Append(sets, SeqToSet(files[k].ids)))

\* get_common_snp as a function of the listing of an existing directory,
\* lines 149-158 and 248-262: how the call ends and the list it returns
GetCommonSnpOf(listing) ==
    LET files == SelectSeq(listing, IsBim)
    IN  IF files = <<>>
        THEN [outcome |-> "FileNotFoundError", list |-> <<>>]
        ELSE LET r == ProcessBimFiles(files, 1, <<>>)
             IN  IF r.error # "none"
                 THEN [outcome |-> r.error, list |-> <<>>]
                 ELSE [outcome |-> "returned", list |-> FindCommonSnps(r.sets)]

\* the files a directory may list: .bim files with their rows' identifiers
\* and a file of another kind, which is not read
DirFiles ==
    [bim : {TRUE}, ids : SeqsUpTo(BimIds, MaxBimLen), bed : {FALSE}]
        \cup {[bim |-> FALSE, ids |-> <<>>, bed |-> FALSE]}

\* the same and a .bed file, which get_common_snp takes as any file that is
\* not a .bim file
MergeDirFiles == DirFiles \cup {[bim |-> FALSE, ids |-> <<>>, bed |-> TRUE]}

NoFile == [exists |-> FALSE, text |-> <<>>]

\* A call of _find_common_snps on some list of sets, or a call of
\* get_common_snp on some directory, which may not exist. The outpath, when
\* given, may not be a directory; when it is one, common_snps.txt may exist
\* in it before the call.
InitSnp ==
    /\ entry \in {"_find_common_snps", "get_common_snp"}
    /\ IF entry = "_find_common_snps"
       THEN /\ snp_sets \in SeqsUpTo(SUBSET SetIds, MaxSets)
            /\ snp_pc = "start"
            /\ dir_exists = FALSE
            /\ dir_files = <<>>
            /\ write = FALSE
            /\ outpath = "None"
            /\ outpath_isdir = FALSE
            /\ out_file = NoFile
       ELSE /\ snp_sets = <<>>
            /\ snp_pc = "enter"
            /\ dir_exists \in BOOLEAN
            /\ dir_files \in (IF dir_exists THEN SeqsUpTo(DirFiles, MaxFiles)
                               ELSE { <<>> })
            /\ write \in BOOLEAN
            /\ outpath \in {"None", "out"}
            /\ outpath_isdir \in (IF outpath = "None" THEN {FALSE} ELSE BOOLEAN)
            /\ out_file \in {NoFile}
                  \cup (IF outpath_isdir
                        THEN {[exists |-> TRUE, text |-> OldText]} ELSE {})
    /\ file_i = 1
    /\ snp_outcome = "none"
    /\ snp_i = 1
    /\ common_snps = {}
    /\ common_list = <<>>
    /\ MergeIdle
    /\ PcaIdle
    /\ ValIdle

\* the validation with the directory listed first
WriteWithoutOutpathAfterListing == write /\ outpath = "None" /\ bim_files # <<>>

\* line 243: write is True and outpath is None
WriteWithoutOutpath == write /\ outpath = "None"

\* lines 243-246: write without an outpath
RaiseValueError ==
    /\ snp_pc = "enter"
    /\ WriteWithoutOutpath
    /\ snp_outcome' = "ValueError"
    /\ snp_pc' = "done"
    /\ UNCHANGED <<dirVars, out_file, file_i, snp_sets, snp_i, common_snps,
                   common_list, mergeVars,
                   pcaVars, valVars>>

\* line 152: os.listdir raises FileNotFoundError for a directory that does
\* not exist
RaiseListdirError ==
    /\ snp_pc = "enter"
    /\ ~WriteWithoutOutpath
    /\ ~dir_exists
    /\ snp_outcome' = "FileNotFoundError"
    /\ snp_pc' = "done"
    /\ UNCHANGED <<dirVars, out_file, file_i, snp_sets, snp_i, common_snps,
                   common_list, mergeVars,
                   pcaVars, valVars>>

\* lines 150-158: the directory lists no .bim file
RaiseNoBimFiles ==
    /\ snp_pc = "enter"
    /\ ~WriteWithoutOutpath
    /\ dir_exists
    /\ bim_files = <<>>
    /\ snp_outcome' = "FileNotFoundError"
    /\ snp_pc' = "done"
    /\ UNCHANGED <<dirVars, out_file, file_i, snp_sets, snp_i, common_snps,
                   common_list, mergeVars,
                   pcaVars, valVars>>

\* lines 150-162: the directory lists .bim files, and the loop over them
\* starts
ListBimFiles ==
    /\ snp_pc = "enter"
    /\ ~WriteWithoutOutpath
    /\ dir_exists
    /\ bim_files # <<>>
    /\ snp_pc' = "files"
    /\ file_i' = 1
    /\ snp_sets' = <<>>
    /\ UNCHANGED <<dirVars, out_file, snp_outcome, snp_i, common_snps,
                   common_list, mergeVars,
                   pcaVars, valVars>>

\* an empty file taken as an empty set of identifiers
AppendEmptySet ==
    /\ snp_pc = "files"
    /\ file_i <= Len(bim_files)
    /\ bim_files[file_i].ids = <<>>
    /\ snp_sets' = Append(snp_sets, {})
    /\ file_i' = file_i + 1
    /\ UNCHANGED <<dirVars, out_file, snp_outcome, snp_pc, snp_i,
                   common_snps, common_list, mergeVars,
                   pcaVars, valVars>>

\* lines 164-166, 176-178: an empty file is skipped
SkipEmptyBimFile ==
    /\ snp_pc = "files"
    /\ file_i <= Len(bim_files)
    /\ bim_files[file_i].ids = <<>>
    /\ file_i' = file_i + 1
    /\ UNCHANGED <<dirVars, out_file, snp_outcome, snp_sets, snp_pc, snp_i,
                   common_snps, common_list, mergeVars,
                   pcaVars, valVars>>

\* a file with a repeated identifier logged and passed over
SkipMultiAllelicFile ==
    /\ snp_pc = "files"
    /\ file_i <= Len(bim_files)
    /\ bim_files[file_i].ids # <<>>
    /\ HasDuplicates(bim_files[file_i].ids)
    /\ file_i' = file_i + 1
    /\ UNCHANGED <<dirVars, out_file, snp_outcome, snp_sets, snp_pc, snp_i,
                   common_snps, common_list, mergeVars,
                   pcaVars, valVars>>

\* lines 181, 186-188: check_multi_allelic raises and the error is re-raised
RaiseMultiAllelicInFile ==
    /\ snp_pc = "files"
    /\ file_i <= Len(bim_files)
    /\ bim_files[file_i].ids # <<>>
    /\ HasDuplicates(bim_files[file_i].ids)
    /\ snp_outcome' = "MultiAllelicError"
    /\ snp_pc' = "done"
    /\ UNCHANGED <<dirVars, out_file, file_i, snp_sets, snp_i, common_snps,
                   common_list, mergeVars,
                   pcaVars, valVars>>

\* lines 181-184: snp_sets.append(set(snp_ids))
AppendSnpSet ==
    /\ snp_pc = "files"
    /\ file_i <= Len(bim_files)
    /\ bim_files[file_i].ids # <<>>
    /\ ~HasDuplicates(bim_files[file_i].ids)
    /\ snp_sets' = Append(snp_sets, SeqToSet(bim_files[file_i].ids))
    /\ file_i' = file_i + 1
    /\ UNCHANGED <<dirVars, out_file, snp_outcome, snp_pc, snp_i,
                   common_snps, common_list, mergeVars,
                   pcaVars, valVars>>

\* _find_common_snps is entered by a direct call, or by get_common_snp
\* (line 252) once every .bim file is processed
AtFindCommon ==
    \/ snp_pc = "start"
    \/ snp_pc = "files" /\ file_i > Len(bim_files)

\* where _find_common_snps returns to
AfterFindCommon == IF entry = "_find_common_snps" THEN "done" ELSE "write"
OutcomeOfFindCommon == IF entry = "_find_common_snps" THEN "returned" ELSE "none"

\* where get_common_snp returns to: its caller, or line 315 of merge_files
AfterGetCommonSnp == IF entry = "merge_files" THEN "script" ELSE "done"
OutcomeOfGetCommonSnp == IF entry = "merge_files" THEN "none" ELSE "returned"

\* lines 202-203: no set at all
ReturnEmptyList ==
    /\ AtFindCommon
    /\ snp_sets = <<>>
    /\ common_list' = <<>>
    /\ snp_pc' = AfterFindCommon
    /\ snp_outcome' = OutcomeOfFindCommon
    /\ UNCHANGED <<dirVars, out_file, file_i, snp_sets, snp_i, common_snps,
                   mergeVars,
                   pcaVars, valVars>>

\* line 206: common_snps = snp_sets[0]
TakeFirstSet ==
    /\ AtFindCommon
    /\ snp_sets # <<>>
    /\ common_snps' = snp_sets[1]
    /\ snp_i' = 2
    /\ snp_pc' = "loop"
    /\ UNCHANGED <<dirVars, out_file, file_i, snp_outcome, snp_sets,
                   common_list, mergeVars,
                   pcaVars, valVars>>

\* the loop going on from the next set when the intersection is empty
IntersectNextSetRestart ==
    /\ snp_pc = "loop"
    /\ snp_i <= Len(snp_sets)
    /\ common_snps' = IF common_snps \cap snp_sets[snp_i] = {}
                      THEN snp_sets[snp_i]
                      ELSE common_snps \cap snp_sets[snp_i]
    /\ snp_pc' = "loop"
    /\ snp_i' = snp_i + 1
    /\ UNCHANGED <<dirVars, out_file, file_i, snp_outcome, snp_sets,
                   common_list, mergeVars,
                   pcaVars, valVars>>

\* lines 207-213: one iteration of `for snp_set in snp_sets[1:]`, with the
\* break on an empty intersection
IntersectNextSet ==
    /\ snp_pc = "loop"
    /\ snp_i <= Len(snp_sets)
    /\ common_snps' = common_snps \cap snp_sets[snp_i]
    /\ IF common_snps' = {}
       THEN snp_pc' = "sort" /\ snp_i' = snp_i
       ELSE snp_pc' = "loop" /\ snp_i' = snp_i + 1
    /\ UNCHANGED <<dirVars, out_file, file_i, snp_outcome, snp_sets,
                   common_list, mergeVars,
                   pcaVars, valVars>>

\* line 215: return sorted(common_snps)
SortAndReturn ==
    /\ \/ snp_pc = "sort"
       \/ snp_pc = "loop" /\ snp_i > Len(snp_sets)
    /\ common_list' = Sorted(common_snps)
    /\ snp_pc' = AfterFindCommon
    /\ snp_outcome' = OutcomeOfFindCommon
    /\ UNCHANGED <<dirVars, out_file, file_i, snp_sets, snp_i, common_snps,
                   mergeVars,
                   pcaVars, valVars>>

\* line 255: write is True and outpath is not None
WriteRequested == write /\ outpath # "None"

\* lines 256-258: open(..., "w") raises FileNotFoundError when outpath is not
\* an existing directory
RaiseOpenError ==
    /\ snp_pc = "write"
    /\ WriteRequested
    /\ ~outpath_isdir
    /\ snp_outcome' = "FileNotFoundError"
    /\ snp_pc' = "done"
    /\ UNCHANGED <<dirVars, out_file, file_i, snp_sets, snp_i, common_snps,
                   common_list, mergeVars,
                   pcaVars, valVars>>

\* lines 255-262: write common_snps.txt when asked to, and return the list
WriteAndReturn ==
    /\ snp_pc = "write"
    /\ WriteRequested => outpath_isdir
    /\ out_file' = IF WriteRequested
                   THEN [exists |-> TRUE, text |-> WrittenText(common_list)]
                   ELSE out_file
    /\ snp_outcome' = OutcomeOfGetCommonSnp
    /\ snp_pc' = AfterGetCommonSnp
    /\ UNCHANGED <<dirVars, file_i, snp_sets, snp_i, common_snps,
                   common_list, mergeVars,
                   pcaVars, valVars>>

NextSnp ==
    \/ RaiseValueError
    \/ RaiseListdirError
    \/ RaiseNoBimFiles
    \/ ListBimFiles
    \/ SkipEmptyBimFile
    \/ RaiseMultiAllelicInFile
    \/ AppendSnpSet
    \/ ReturnEmptyList
    \/ TakeFirstSet
    \/ IntersectNextSet
    \/ SortAndReturn
    \/ RaiseOpenError
    \/ WriteAndReturn

SpecSnp == InitSnp /\ [][NextSnp]_vars

\* A call get_common_snp(filepath), write and outpath left at their
\* defaults, on a directory that exists.
InitListing ==
    /\ entry = "get_common_snp"
    /\ snp_sets = <<>>
    /\ snp_pc = "enter"
    /\ dir_exists = TRUE
    /\ dir_files \in SeqsUpTo(DirFiles, MaxFiles)
    /\ write = FALSE
    /\ outpath = "None"
    /\ outpath_isdir = FALSE
    /\ out_file = NoFile
    /\ file_i = 1 /\ snp_outcome = "none" /\ snp_i = 1
    /\ common_snps = {} /\ common_list = <<>>
    /\ MergeIdle
    /\ PcaIdle
    /\ ValIdle

\* the steps such a call can take
NextListing ==
    \/ RaiseNoBimFiles
    \/ ListBimFiles
    \/ SkipEmptyBimFile
    \/ RaiseMultiAllelicInFile
    \/ AppendSnpSet
    \/ ReturnEmptyList
    \/ TakeFirstSet
    \/ IntersectNextSet
    \/ SortAndReturn
    \/ WriteAndReturn

SpecListing == InitListing /\ [][NextListing]_vars

----------------------------------------------------------------------------
\* OtterSNP.merge_files, src/src/otterseq/snp.py. The file names of the
\* directory are its positions in the listing.

\* line 292: outpath = outpath or filepath
OutputDir == IF merge_outpath = "None" THEN "filepath" ELSE merge_outpath

\* line 298: the positions of the listed files whose name ends in ".bed"
pgen_files == {k \in 1..Len(dir_files) : dir_files[k].bed}

\* lines 301-308: the text of merge_list.txt, one file prefix per line
RECURSIVE MergeListText(_)
MergeListText(k) ==
    IF k > Len(dir_files) THEN <<>>
    ELSE (IF dir_files[k].bed THEN << k, NewLine >> ELSE <<>>)
            \o MergeListText(k + 1)

\* the text of a merge_list.txt left by an earlier run
OldMergeList == << 9, NewLine >>

\* lines 319-334: the command, prefix being a string
MergeCommand ==
    << "bash", "merge_files.sh", "--merge-file",
       OutputDir \o "/merge_list.txt", "--outpath", OutputDir,
       "--prefix", "merged_snps" >>
    \o (IF only_common
        THEN << "--extract", OutputDir \o "/common_snps.txt" >>
        ELSE <<>>)

\* A call of merge_files on some directory, which may not exist. With no
\* outpath the output directory is the input directory; an output directory
\* that exists may hold the files of an earlier run.
InitMerge ==
    /\ entry = "merge_files"
    /\ dir_exists \in BOOLEAN
    /\ dir_files \in (IF dir_exists THEN SeqsUpTo(MergeDirFiles, MaxFiles)
                       ELSE { <<>> })
    /\ merge_outpath \in {"None", "out"}
    /\ outpath_isdir \in (IF merge_outpath = "None" THEN {dir_exists}
                           ELSE BOOLEAN)
    /\ only_common \in BOOLEAN
    /\ write = FALSE
    /\ outpath = "None"
    /\ out_file \in {NoFile}
          \cup (IF outpath_isdir
                THEN {[exists |-> TRUE, text |-> OldText]} ELSE {})
    /\ merge_list \in {NoFile}
          \cup (IF outpath_isdir
                THEN {[exists |-> TRUE, text |-> OldMergeList]} ELSE {})
    /\ created_dirs = {}
    /\ commands = <<>>
    /\ snp_pc = "merge"
    /\ snp_sets = <<>>
    /\ file_i = 1
    /\ snp_outcome = "none"
    /\ snp_i = 1
    /\ common_snps = {}
    /\ common_list = <<>>
    /\ PcaIdle
    /\ ValIdle

\* lines 292-295: the output directory is created when it does not exist
MakeOutpath ==
    /\ snp_pc = "merge"
    /\ IF outpath_isdir
       THEN UNCHANGED <<outpath_isdir, dir_exists, created_dirs>>
       ELSE /\ outpath_isdir' = TRUE
            /\ created_dirs' = created_dirs \cup {OutputDir}
            /\ dir_exists' = IF merge_outpath = "None" THEN TRUE
                              ELSE dir_exists
    /\ snp_pc' = "list_bed"
    /\ UNCHANGED <<entry, dir_files, write, outpath, merge_outpath,
                   only_common, out_file, file_i, snp_outcome, snp_sets,
                   snp_i, common_snps, common_list, merge_list, commands,
                   pcaVars, valVars>>

\* line 298: os.listdir raises FileNotFoundError for a directory that does
\* not exist
RaiseBedListdirError ==
    /\ snp_pc = "list_bed"
    /\ ~dir_exists
    /\ snp_outcome' = "FileNotFoundError"
    /\ snp_pc' = "done"
    /\ UNCHANGED <<dirVars, out_file, file_i, snp_sets, snp_i, common_snps,
                   common_list, mergeVars, pcaVars, valVars>>

\* lines 298-300: the directory lists no .bed file
RaiseNoBedFiles ==
    /\ snp_pc = "list_bed"
    /\ dir_exists
    /\ pgen_files = {}
    /\ snp_outcome' = "FileNotFoundError"
    /\ snp_pc' = "done"
    /\ UNCHANGED <<dirVars, out_file, file_i, snp_sets, snp_i, common_snps,
                   common_list, mergeVars, pcaVars, valVars>>

\* lines 298-308: merge_list.txt is written
WriteMergeList ==
    /\ snp_pc = "list_bed"
    /\ dir_exists
    /\ pgen_files # {}
    /\ merge_list' = [exists |-> TRUE, text |-> MergeListText(1)]
    /\ snp_pc' = "common"
    /\ UNCHANGED <<dirVars, out_file, file_i, snp_outcome, snp_sets, snp_i,
                   common_snps, common_list, created_dirs, commands,
                   pcaVars, valVars>>

\* lines 311-314: get_common_snp(filepath, outpath=outpath, write=True)
CallGetCommonSnp ==
    /\ snp_pc = "common"
    /\ only_common
    /\ write' = TRUE
    /\ outpath' = OutputDir
    /\ snp_pc' = "enter"
    /\ UNCHANGED <<entry, dir_exists, dir_files, outpath_isdir,
                   merge_outpath, only_common, out_file, file_i,
                   snp_outcome, snp_sets, snp_i, common_snps, common_list,
                   mergeVars, pcaVars, valVars>>

\* line 311: only_common is False
SkipGetCommonSnp ==
    /\ snp_pc = "common"
    /\ ~only_common
    /\ snp_pc' = "script"
    /\ UNCHANGED <<dirVars, out_file, file_i, snp_outcome, snp_sets, snp_i,
                   common_snps, common_list, mergeVars, pcaVars, valVars>>

\* lines 315-337: the merge script is run, its exit status ignored
RunMergeScript ==
    /\ snp_pc = "script"
    /\ commands' = Append(commands, MergeCommand)
    /\ snp_outcome' = "returned"
    /\ snp_pc' = "done"
    /\ UNCHANGED <<dirVars, out_file, file_i, snp_sets, snp_i, common_snps,
                   common_list, merge_list, created_dirs, pcaVars, valVars>>

\* the steps of merge_files, those of the get_common_snp call it makes
\* included
NextMerge ==
    \/ MakeOutpath
    \/ RaiseBedListdirError
    \/ RaiseNoBedFiles
    \/ WriteMergeList
    \/ CallGetCommonSnp
    \/ SkipGetCommonSnp
    \/ RaiseNoBimFiles
    \/ ListBimFiles
    \/ SkipEmptyBimFile
    \/ RaiseMultiAllelicInFile
    \/ AppendSnpSet
    \/ ReturnEmptyList
    \/ TakeFirstSet
    \/ IntersectNextSet
    \/ SortAndReturn
    \/ WriteAndReturn
    \/ RunMergeScript

SpecMerge == InitMerge /\ [][NextMerge]_vars

----------------------------------------------------------------------------
\* OtterQC.qc, src/src/otterseq/qc.py. Thresholds are held in tenths.

\* The fields of qc: the arguments of the call,
qc_filename == qc.filename
qc_outpath == qc.outpath             \* "None" or a string
exclude_vars == qc.exclude_vars      \* <<>> for None, or <<list>>
exclude_indvs == qc.exclude_indvs    \* <<>> for None, or <<table>>
maf == qc.maf                        \* <<>> for None, or <<tenths>>
geno_miss == qc.geno_miss
indv_miss == qc.indv_miss
\* the suffixes s for which filename + s is a file, and whether files can be
\* created in the output directory,
qc_files == qc.files
qc_outdir_ok == qc.outdir_ok
\* the .rmvars and the .rmindv file, [exists, path, text], the commands
\* passed to subprocess.run, "none", "returned" or the exception raised, and
\* the position of the call.
rm_vars_file == qc.rm_vars_file
rm_indv_file == qc.rm_indv_file
qc_commands == qc.commands
qc_outcome == qc.outcome
qc_pc == qc.pc

\* an optional argument: <<>> for None, <<v>> for the value v
Option(S) == { <<>> } \cup { <<v>> : v \in S }

Digits == <<"0", "1", "2", "3", "4", "5", "6", "7", "8", "9">>

\* str(value) of a float held in tenths, 0.0 to 9.9
StrOf(v) == Digits[(v \div 10) + 1] \o "." \o Digits[(v % 10) + 1]

\* line 252: maf is not None and not 0 < maf < 0.5
MafInvalid == maf # <<>> /\ ~(0 < maf[1] /\ maf[1] < 5)
\* line 254: geno_miss is not None and not 0 <= geno_miss <= 1
GenoMissInvalid == geno_miss # <<>> /\ ~(0 <= geno_miss[1] /\ geno_miss[1] <= 10)
\* line 256: indv_miss is not None and not 0 <= indv_miss <= 1
IndvMissInvalid == indv_miss # <<>> /\ ~(0 <= indv_miss[1] /\ indv_miss[1] <= 10)

\* lines 252-257: the message of the first check that fails
QcValueError ==
    IF MafInvalid THEN "ValueError: maf not in range (0,1)"
    ELSE IF GenoMissInvalid THEN "ValueError: geno_miss not in range (0,1)"
    ELSE IF IndvMissInvalid THEN "ValueError: pheno_miss not in range (0,1)"
    ELSE "none"

\* _SUFFIXES
Suffixes == <<".bim", ".bed", ".fam">>

\* the first suffix of the list, from position k on, with no file; "" if
\* every file is there
RECURSIVE FirstMissing(_, _, _)
FirstMissing(suffixes, files, k) ==
    IF k > Len(suffixes) THEN ""
    ELSE IF suffixes[k] \notin files THEN suffixes[k]
    ELSE FirstMissing(suffixes, files, k + 1)

\* os.path.dirname and os.path.basename on the file names of the model
Dirname(f) == IF f = "data/toy" THEN "data" ELSE ""
Basename(f) == "toy"

\* os.path.join of a non-empty directory and a file name
PathJoin(dir, name) == dir \o "/" \o name

\* line 263: outpath or os.path.dirname(filename) or "."
QcOutpath ==
    IF qc_outpath \notin {"None", ""} THEN qc_outpath
    ELSE IF Dirname(qc_filename) # "" THEN Dirname(qc_filename)
    ELSE "."

\* lines 269, 275
rm_vars_path == PathJoin(QcOutpath, Basename(qc_filename) \o ".rmvars")
rm_indv_path == PathJoin(QcOutpath, Basename(qc_filename) \o ".rmindv")

\* lines 290-296: the flags and the values they go with
optional_args ==
    << [flag |-> "--indv-miss", num |-> TRUE, value |-> indv_miss],
       [flag |-> "--geno-miss", num |-> TRUE, value |-> geno_miss],
       [flag |-> "--maf", num |-> TRUE, value |-> maf],
       [flag |-> "--rm-vars", num |-> FALSE,
        value |-> IF exclude_vars # <<>> THEN <<rm_vars_path>> ELSE <<>>],
       [flag |-> "--rm-indv", num |-> FALSE,
        value |-> IF exclude_indvs # <<>> THEN <<rm_indv_path>> ELSE <<>>] >>

\* Flatten dropping a value that is zero as well as one that is None
RECURSIVE FlattenTruthy(_)
FlattenTruthy(args) ==
    IF args = <<>> THEN <<>>
    ELSE LET a == Head(args)
             given == a.value # <<>> /\ (a.num => a.value[1] # 0)
         IN  (IF given
              THEN <<a.flag, IF a.num THEN StrOf(a.value[1]) ELSE a.value[1]>>
              ELSE <<>>) \o FlattenTruthy(Tail(args))

\* lines 299-301: command.extend([flag, str(value)]) for the values that are
\* not None
RECURSIVE Flatten(_)
Flatten(args) ==
    IF args = <<>> THEN <<>>
    ELSE LET a == Head(args)
         IN  (IF a.value # <<>>
              THEN <<a.flag, IF a.num THEN StrOf(a.value[1]) ELSE a.value[1]>>
              ELSE <<>>) \o Flatten(Tail(args))

\* _QC_SCRIPT
QcScript == "qc.sh"

\* lines 280-301
QcCommand ==
    <<"bash", QcScript, "--bfile", qc_filename, "--outpath", QcOutpath>>
        \o Flatten(optional_args)

MafValues == {0, 2, 5}
MissValues == {-1, 0, 10, 11}
Filenames == {"data/toy", "toy"}
VarNames == {"rs1"}
\* one table of individuals to exclude, as rows of FID and IID
IndvTable == << <<"d", "e">> >>
NoQcFile == [exists |-> FALSE, path |-> "", text |-> <<>>]

\* A call of qc on some arguments and some files.
InitQc ==
    /\ qc \in [filename : Filenames,
               outpath : {"None", "", "out"},
               exclude_vars : Option(SeqsUpTo(VarNames, MaxExclude)),
               exclude_indvs : Option({IndvTable}),
               maf : Option(MafValues),
               geno_miss : Option(MissValues),
               indv_miss : Option(MissValues),
               files : SUBSET SeqToSet(Suffixes),
               outdir_ok : BOOLEAN,
               rm_vars_file : {NoQcFile},
               rm_indv_file : {NoQcFile},
               commands : { <<>> },
               outcome : {"none"},
               pc : {"start"}]
    /\ LrIdle
    /\ PcaIdle
    /\ rs_ids = <<>> /\ val_outcome = "idle" /\ FamIdle
    /\ SnpIdle

\* QcRaiseNotFound testing the files before the thresholds
QcRaiseNotFoundFirst ==
    /\ qc_pc = "start"
    /\ FirstMissing(Suffixes, qc_files, 1) # ""
    /\ qc' = [qc EXCEPT
                !.outcome = "FileNotFoundError: " \o qc_filename
                               \o FirstMissing(Suffixes, qc_files, 1)
                               \o " not found",
                !.pc = "done"]
    /\ UNCHANGED <<lr, pcaVars, rs_ids, val_outcome, famVars, snpVars>>

\* lines 252-257: a threshold out of range
QcRaiseValueError ==
    /\ qc_pc = "start"
    /\ QcValueError # "none"
    /\ qc' = [qc EXCEPT !.outcome = QcValueError, !.pc = "done"]
    /\ UNCHANGED <<lr, pcaVars, rs_ids, val_outcome, famVars, snpVars>>

\* lines 259-261: an input file is missing
QcRaiseNotFound ==
    /\ qc_pc = "start"
    /\ QcValueError = "none"
    /\ FirstMissing(Suffixes, qc_files, 1) # ""
    /\ qc' = [qc EXCEPT
                !.outcome = "FileNotFoundError: " \o qc_filename
                               \o FirstMissing(Suffixes, qc_files, 1)
                               \o " not found",
                !.pc = "done"]
    /\ UNCHANGED <<lr, pcaVars, rs_ids, val_outcome, famVars, snpVars>>

\* lines 252-266: every check passes
QcChecksPass ==
    /\ qc_pc = "start"
    /\ QcValueError = "none"
    /\ FirstMissing(Suffixes, qc_files, 1) = ""
    /\ qc' = [qc EXCEPT !.pc = "vars"]
    /\ UNCHANGED <<lr, pcaVars, rs_ids, val_outcome, famVars, snpVars>>

\* lines 270, 276: the output directory cannot be written
QcRaiseOpenError ==
    /\ \/ qc_pc = "vars" /\ exclude_vars # <<>>
       \/ qc_pc = "indv" /\ exclude_indvs # <<>>
    /\ ~qc_outdir_ok
    /\ qc' = [qc EXCEPT !.outcome = "OSError", !.pc = "done"]
    /\ UNCHANGED <<lr, pcaVars, rs_ids, val_outcome, famVars, snpVars>>

\* lines 268-272: one line for each variant to exclude
QcWriteRmVars ==
    /\ qc_pc = "vars"
    /\ exclude_vars # <<>>
    /\ qc_outdir_ok
    /\ qc' = [qc EXCEPT
                !.rm_vars_file =
                    [exists |-> TRUE, path |-> rm_vars_path,
                     text |-> [k \in 1..Len(exclude_vars[1]) |->
                                 exclude_vars[1][k] \o "\n"]],
                !.pc = "indv"]
    /\ UNCHANGED <<lr, pcaVars, rs_ids, val_outcome, famVars, snpVars>>

\* line 268: exclude_vars is None
QcSkipRmVars ==
    /\ qc_pc = "vars"
    /\ exclude_vars = <<>>
    /\ qc' = [qc EXCEPT !.pc = "indv"]
    /\ UNCHANGED <<lr, pcaVars, rs_ids, val_outcome, famVars, snpVars>>

\* lines 274-278: exclude_indvs.to_csv(sep="\t", header=False, index=False)
QcWriteRmIndv ==
    /\ qc_pc = "indv"
    /\ exclude_indvs # <<>>
    /\ qc_outdir_ok
    /\ qc' = [qc EXCEPT
                !.rm_indv_file =
                    [exists |-> TRUE, path |-> rm_indv_path,
                     text |-> [k \in 1..Len(exclude_indvs[1]) |->
                                 exclude_indvs[1][k][1] \o "\t"
                                     \o exclude_indvs[1][k][2] \o "\n"]],
                !.pc = "run"]
    /\ UNCHANGED <<lr, pcaVars, rs_ids, val_outcome, famVars, snpVars>>

\* line 274: exclude_indvs is None
QcSkipRmIndv ==
    /\ qc_pc = "indv"
    /\ exclude_indvs = <<>>
    /\ qc' = [qc EXCEPT !.pc = "run"]
    /\ UNCHANGED <<lr, pcaVars, rs_ids, val_outcome, famVars, snpVars>>

\* lines 280-306: subprocess.run(command, check=False)
QcRunScript ==
    /\ qc_pc = "run"
    /\ qc' = [qc EXCEPT !.commands = Append(qc_commands, QcCommand),
                        !.outcome = "returned",
                        !.pc = "done"]
    /\ UNCHANGED <<lr, pcaVars, rs_ids, val_outcome, famVars, snpVars>>

NextQc ==
    \/ QcRaiseValueError
    \/ QcRaiseNotFound
    \/ QcChecksPass
    \/ QcRaiseOpenError
    \/ QcWriteRmVars
    \/ QcSkipRmVars
    \/ QcWriteRmIndv
    \/ QcSkipRmIndv
    \/ QcRunScript

SpecQc == InitQc /\ [][NextQc]_vars

----------------------------------------------------------------------------
\* OtterOps.run_logistic_regression, src/src/otterseq/operations.py

\* The fields of lr: the suffixes s for which filename + s exists, the
\* outpath argument ("None" or a string), whether files can be created in
\* the directory of outpath, the rows of the .eigenvec file [fid, iid, pc1]
\* and of the .fam file [fid, iid, pheno],
lr_files == lr.files
lr_outpath == lr.outpath
lr_outdir_ok == lr.outdir_ok
lr_pca_rows == lr.pca_rows
lr_fam_rows == lr.fam_rows
\* the files at the two temporary paths, [exists, text], the commands passed
\* to subprocess.run, the exit status of the script, "none", "returned" or
\* the exception raised, and the position of the call.
temp_covars == lr.temp_covars
temp_pheno == lr.temp_pheno
lr_commands == lr.commands
lr_status == lr.status
lr_outcome == lr.outcome
lr_pc == lr.pc

\* _SUFFIXES followed by _PCA_SUFFIX, the order of the checks of lines 57-63
LrSuffixes == Suffixes \o <<".eigenvec">>

LrFilename == "data/toy"

\* line 65: filename if outpath is None else outpath
LrOutpath == IF lr_outpath = "None" THEN LrFilename ELSE lr_outpath

\* lines 75, 82
temp_covars_path == LrOutpath \o ".covars.tsv"
temp_pheno_path == LrOutpath \o ".pheno.tsv"

\* lines 71-78: the fid, iid and pc columns of the .eigenvec rows
covars_df == [k \in 1..Len(lr_pca_rows) |->
                <<lr_pca_rows[k].fid, lr_pca_rows[k].iid, lr_pca_rows[k].pc1>>]

\* lines 81-85: the fid, iid and pheno columns of the .fam rows
pheno_df == [k \in 1..Len(lr_fam_rows) |->
                <<lr_fam_rows[k].fid, lr_fam_rows[k].iid, lr_fam_rows[k].pheno>>]

\* _LOGISTIC_SCRIPT
LogisticScript == "logistic_regression.sh"

\* lines 88-99
LrCommand ==
    <<"bash", LogisticScript, "--bfile", LrFilename, "--outpath", LrOutpath,
      "--pheno", temp_pheno_path, "--covar", temp_covars_path>>

\* a file left at a temporary path by something else
OldTsv == [exists |-> TRUE, text |-> << <<"old">> >>]
NoTsv == [exists |-> FALSE, text |-> <<>>]

\* the tables of up to MaxLrRows samples
LrPcaTables ==
    UNION {[1..m -> [fid : {"d"}, iid : {"e", "g"}, pc1 : 0..MaxPC]] :
              m \in 1..MaxLrRows}
LrFamTables ==
    UNION {[1..m -> [fid : {"d"}, iid : {"e"},
                     pheno : {ControlPheno, CasePheno}]] : m \in 1..MaxLrRows}

\* A call of run_logistic_regression on some files.
InitLr ==
    /\ lr \in [files : SUBSET SeqToSet(LrSuffixes),
               outpath : {"None", "", "out/toy"},
               outdir_ok : BOOLEAN,
               pca_rows : LrPcaTables,
               fam_rows : LrFamTables,
               temp_covars : {NoTsv, OldTsv},
               temp_pheno : {NoTsv, OldTsv},
               commands : { <<>> },
               status : {0},
               outcome : {"none"},
               pc : {"start"}]
    /\ QcIdle
    /\ PcaIdle
    /\ rs_ids = <<>> /\ val_outcome = "idle" /\ FamIdle
    /\ SnpIdle

\* lines 57-63: a required file is missing
LrRaiseNotFound ==
    /\ lr_pc = "start"
    /\ FirstMissing(LrSuffixes, lr_files, 1) # ""
    /\ lr' = [lr EXCEPT
                !.outcome = "FileNotFoundError: File " \o LrFilename
                               \o FirstMissing(LrSuffixes, lr_files, 1)
                               \o " not found",
                !.pc = "done"]
    /\ UNCHANGED <<qc, pcaVars, rs_ids, val_outcome, famVars, snpVars>>

\* lines 76-78: the directory of outpath cannot be written
LrRaiseWriteError ==
    /\ lr_pc = "start"
    /\ FirstMissing(LrSuffixes, lr_files, 1) = ""
    /\ lr_outpath # "None" /\ ~lr_outdir_ok
    /\ lr' = [lr EXCEPT !.outcome = "OSError", !.pc = "done"]
    /\ UNCHANGED <<qc, pcaVars, rs_ids, val_outcome, famVars, snpVars>>

\* lines 57-78: the checks pass, both tables are read and the covariates
\* are written
LrWriteCovars ==
    /\ lr_pc = "start"
    /\ FirstMissing(LrSuffixes, lr_files, 1) = ""
    /\ lr_outpath = "None" \/ lr_outdir_ok
    /\ lr' = [lr EXCEPT
                !.temp_covars = [exists |-> TRUE, text |-> covars_df],
                !.pc = "pheno"]
    /\ UNCHANGED <<qc, pcaVars, rs_ids, val_outcome, famVars, snpVars>>

\* lines 81-85
LrWritePheno ==
    /\ lr_pc = "pheno"
    /\ lr' = [lr EXCEPT
                !.temp_pheno = [exists |-> TRUE, text |-> pheno_df],
                !.pc = "run"]
    /\ UNCHANGED <<qc, pcaVars, rs_ids, val_outcome, famVars, snpVars>>

\* lines 88-102: subprocess.run(cmd, check=False); the script ends with
\* some exit status and leaves the temporary files alone
LrRunScript ==
    /\ lr_pc = "run"
    /\ \E status \in {0, 1} :
          lr' = [lr EXCEPT !.commands = Append(lr_commands, LrCommand),
                           !.status = status,
                           !.pc = "rm_covars"]
    /\ UNCHANGED <<qc, pcaVars, rs_ids, val_outcome, famVars, snpVars>>

\* line 105: os.remove(temp_covars_path)
LrRemoveCovars ==
    /\ lr_pc = "rm_covars"
    /\ lr' = [lr EXCEPT !.temp_covars = NoTsv, !.pc = "rm_pheno"]
    /\ UNCHANGED <<qc, pcaVars, rs_ids, val_outcome, famVars, snpVars>>

\* LrRemovePheno returning without the removal
LrKeepPheno ==
    /\ lr_pc = "rm_pheno"
    /\ lr' = [lr EXCEPT !.outcome = "returned", !.pc = "done"]
    /\ UNCHANGED <<qc, pcaVars, rs_ids, val_outcome, famVars, snpVars>>

\* line 106: os.remove(temp_pheno_path), and the return
LrRemovePheno ==
    /\ lr_pc = "rm_pheno"
    /\ lr' = [lr EXCEPT !.temp_pheno = NoTsv,
                        !.outcome = "returned",
                        !.pc = "done"]
    /\ UNCHANGED <<qc, pcaVars, rs_ids, val_outcome, famVars, snpVars>>

NextLr ==
    \/ LrRaiseNotFound
    \/ LrRaiseWriteError
    \/ LrWriteCovars
    \/ LrWritePheno
    \/ LrRunScript
    \/ LrRemoveCovars
    \/ LrRemovePheno

SpecLr == InitLr /\ [][NextLr]_vars

\* The call is sequential code: a step that can be taken is taken.
SpecLrLive == SpecLr /\ WF_vars(NextLr)

----------------------------------------------------------------------------
\* a comes before b in ascending lexicographic order
LexBefore(a, b) ==
    \E k \in 1..Len(b) :
        /\ k - 1 <= Len(a)
        /\ \A h \in 1..(k - 1) : a[h] = b[h]
        /\ k > Len(a) \/ a[k] < b[k]

\* the non-empty .bim files of the directory
NonEmptyBim ==
    LET files == bim_files
    IN  {k \in 1..Len(files) : files[k].ids # <<>>}

IdsOfFile(k) ==
    LET ids == bim_files[k].ids
    IN  {ids[h] : h \in 1..Len(ids)}

ListHolds(x) == \E k \in 1..Len(common_list) : common_list[k] = x

\* C10: the list _find_common_snps returns, which is the list get_common_snp
\* returns, holds exactly the identifiers present in every given set (for
\* get_common_snp: in every non-empty .bim file of the directory), in
\* strictly ascending lexicographic order (so each once), whether or not the
\* loop stopped early; it is [] for an empty list of sets and the sorted set
\* for a single set.
C10_SortedIntersection ==
    (snp_pc = "done" /\ snp_outcome = "returned") =>
        /\ \A x \in RsIds :
              ListHolds(x) <=> (snp_sets # <<>>
                                  /\ \A i \in 1..Len(snp_sets) : x \in snp_sets[i])
        /\ entry = "get_common_snp" =>
              \A x \in RsIds :
                  ListHolds(x) <=> (NonEmptyBim # {}
                                      /\ \A k \in NonEmptyBim : x \in IdsOfFile(k))
        /\ \A k \in 1..Len(common_list) : common_list[k] \in RsIds
        /\ \A a, b \in 1..Len(common_list) :
              a < b => LexBefore(common_list[a], common_list[b])
        /\ snp_sets = <<>> => common_list = <<>>
        /\ Len(snp_sets) = 1 => Len(common_list) = Cardinality(snp_sets[1])

\* C10 witness: a call of _find_common_snps on three sets returned rs1,
\* rs10, rs2 in that order.
C10_Witness ==
    /\ snp_pc = "done" /\ snp_outcome = "returned"
    /\ Len(snp_sets) = 3
    /\ common_list = << <<1>>, <<1, 0>>, <<2>> >>

\* a call stopped on an empty intersection before reaching its last set
C10_EarlyStop ==
    /\ snp_pc = "done" /\ snp_outcome = "returned"
    /\ snp_i < Len(snp_sets)
    /\ snp_sets[Len(snp_sets)] # {}

\* get_common_snp returned rs10, rs2 for a directory with an empty .bim file
C10_DirectoryWitness ==
    /\ snp_pc = "done" /\ snp_outcome = "returned"
    /\ entry = "get_common_snp"
    /\ common_list = << <<1, 0>>, <<2>> >>
    /\ \E k \in 1..Len(bim_files) : bim_files[k].ids = <<>>

\* the identifiers of .bim file k are pairwise different
NoRepeat(k) ==
    LET ids == bim_files[k].ids
    IN  \A a, b \in 1..Len(ids) : a # b => ids[a] # ids[b]

\* a call of get_common_snp that passed its argument check on a directory
\* that exists, and can open its output file if it is to write one
ReadsDirectory ==
    /\ entry = "get_common_snp"
    /\ ~(write /\ outpath = "None")
    /\ dir_exists
    /\ (write /\ outpath # "None") => outpath_isdir

Ascending(list) ==
    \A a, b \in 1..Len(list) : a < b => LexBefore(list[a], list[b])

\* C11: an empty .bim file is skipped and constrains nothing. For a
\* directory whose .bim files are non-empty files without repeated
\* identifiers plus any number of empty ones, get_common_snp returns the
\* ascending list of the identifiers present in every non-empty file (which
\* is not [] when they share one); for a directory whose .bim files are all
\* empty it returns [] and raises nothing.
C11_EmptyFilesSkipped ==
    (snp_pc = "done" /\ ReadsDirectory /\ bim_files # <<>>
        /\ \A k \in NonEmptyBim : NoRepeat(k)) =>
        /\ snp_outcome = "returned"
        /\ Len(snp_sets) = Cardinality(NonEmptyBim)
        /\ NonEmptyBim # {} =>
              /\ \A x \in BimIds :
                    ListHolds(x) <=> \A k \in NonEmptyBim : x \in IdsOfFile(k)
              /\ \A h \in 1..Len(common_list) : common_list[h] \in BimIds
              /\ Ascending(common_list)
        /\ NonEmptyBim = {} => common_list = <<>>

\* C11 witness: get_common_snp returned a non-empty list for a directory
\* with two non-empty .bim files and an empty one listed between them.
C11_Witness ==
    /\ snp_pc = "done" /\ snp_outcome = "returned"
    /\ entry = "get_common_snp"
    /\ Len(bim_files) = 3
    /\ bim_files[1].ids # <<>>
    /\ bim_files[2].ids = <<>>
    /\ bim_files[3].ids # <<>>
    /\ common_list # <<>>

\* get_common_snp returned [] for a directory whose .bim files are all empty
C11_AllEmptyWitness ==
    /\ snp_pc = "done" /\ snp_outcome = "returned"
    /\ entry = "get_common_snp"
    /\ Len(bim_files) >= 2
    /\ NonEmptyBim = {}
    /\ common_list = <<>>

\* the list of sets rearranged by the permutation p
Permuted(sets, p) == [i \in 1..Len(sets) |-> sets[p[i]]]

\* the permutations of the positions of a list of m sets
SetListPerms == [m \in 0..MaxSets |-> Perms(m)]

\* C12: the list _find_common_snps returns for a list of sets is the list
\* it returns for every permutation of that list.
C12_OrderIndependent ==
    (entry = "_find_common_snps" /\ snp_pc = "done") =>
        /\ snp_outcome = "returned"
        /\ \A p \in SetListPerms[Len(snp_sets)] :
              FindCommonSnps(Permuted(snp_sets, p)) = common_list

\* C12 witness: _find_common_snps returned a non-empty list for three
\* different sets, none of which is the intersection.
C12_Witness ==
    /\ entry = "_find_common_snps" /\ snp_pc = "done"
    /\ Len(snp_sets) = 3
    /\ snp_sets[1] # snp_sets[2] /\ snp_sets[2] # snp_sets[3]
    /\ snp_sets[1] # snp_sets[3]
    /\ common_list # <<>>
    /\ \A i \in 1..3 : Cardinality(snp_sets[i]) > Len(common_list)

\* _find_common_snps stopped early on a list whose order matters to where
\* it stops: the first two sets are disjoint, the last two are not
C12_EarlyStopWitness ==
    /\ entry = "_find_common_snps" /\ snp_pc = "done"
    /\ Len(snp_sets) = 3
    /\ snp_sets[1] \cap snp_sets[2] = {}
    /\ snp_sets[2] \cap snp_sets[3] # {}
    /\ common_list = <<>>

\* two non-empty .bim files of the directory, neither repeating an
\* identifier, share no identifier
TwoDisjointFiles ==
    \E k, l \in NonEmptyBim :
        /\ k # l
        /\ NoRepeat(k) /\ NoRepeat(l)
        /\ IdsOfFile(k) \cap IdsOfFile(l) = {}

\* C13 as stated: for every directory in which two non-empty .bim files have
\* disjoint identifier sets, get_common_snp returns the empty list, whatever
\* other .bim files the directory holds.
C13_Original ==
    (snp_pc = "done" /\ ReadsDirectory /\ TwoDisjointFiles) =>
        /\ snp_outcome = "returned"
        /\ common_list = <<>>

\* C13 amended: for every directory in which two non-empty .bim files have
\* disjoint identifier sets and no non-empty .bim file repeats an
\* identifier, get_common_snp returns the empty list, however many other
\* .bim files the directory holds; if some non-empty file repeats an
\* identifier the call raises MultiAllelicError and returns no list.
C13_DisjointGivesEmpty ==
    (snp_pc = "done" /\ ReadsDirectory /\ TwoDisjointFiles) =>
        /\ (\A k \in NonEmptyBim : NoRepeat(k)) =>
              /\ snp_outcome = "returned"
              /\ common_list = <<>>
        /\ (\E k \in NonEmptyBim : ~NoRepeat(k)) =>
              /\ snp_outcome = "MultiAllelicError"
              /\ common_list = <<>>

\* C13 witness: get_common_snp returned [] for a directory of three
\* non-empty .bim files of which the first two are disjoint and the third
\* shares an identifier with each.
C13_Witness ==
    /\ entry = "get_common_snp"
    /\ snp_pc = "done" /\ snp_outcome = "returned"
    /\ Len(bim_files) = 3
    /\ NonEmptyBim = {1, 2, 3}
    /\ IdsOfFile(1) \cap IdsOfFile(2) = {}
    /\ IdsOfFile(1) \cap IdsOfFile(3) # {}
    /\ IdsOfFile(2) \cap IdsOfFile(3) # {}
    /\ common_list = <<>>

\* some identifier stands at two positions of the list
Repeats(ids) == \E a, b \in 1..Len(ids) : a < b /\ ids[a] = ids[b]

\* the files of a listing that repeat an identifier, and the first of a set
\* of files in listing order
RepeatingFiles(files) == {k \in 1..Len(files) : Repeats(files[k].ids)}
FirstOf(S) == CHOOSE k \in S : \A l \in S : k <= l

\* common_snps.txt is as it was before the call: absent, or the earlier
\* run's file (no call writes that text: no .bim file holds rs3)
OutFileUntouched ==
    /\ out_file \in {NoFile, [exists |-> TRUE, text |-> OldText]}
    /\ out_file.exists => outpath_isdir

\* C14: when a non-empty .bim file repeats an identifier, get_common_snp
\* (past its argument check, on an existing directory) raises
\* MultiAllelicError; it stops at the first such file in listing order, so no
\* file after it is processed; no intersection is computed, no list is
\* returned, and common_snps.txt is neither created nor changed.
C14_DuplicateIsFatal ==
    (entry = "get_common_snp" /\ dir_exists /\ ~(write /\ outpath = "None")) =>
        LET files == bim_files
            repeating == RepeatingFiles(files)
        IN  repeating # {} =>
              LET first == FirstOf(repeating)
              IN  /\ snp_pc \in {"enter", "files", "done"}
                  /\ file_i <= first
                  /\ common_snps = {} /\ snp_i = 1 /\ common_list = <<>>
                  /\ OutFileUntouched
                  /\ snp_pc = "done" =>
                        /\ snp_outcome = "MultiAllelicError"
                        /\ file_i = first
                        /\ Len(snp_sets) =
                              Cardinality({k \in 1..(first - 1) :
                                              files[k].ids # <<>>})

\* C14 witness: the call raised MultiAllelicError on the second of three
\* .bim files, after a valid one and before one that exists and is never
\* read, with write requested and an earlier common_snps.txt in place.
C14_Witness ==
    /\ entry = "get_common_snp"
    /\ snp_pc = "done" /\ snp_outcome = "MultiAllelicError"
    /\ Len(bim_files) = 3
    /\ file_i = 2
    /\ Len(snp_sets) = 1
    /\ bim_files[3].ids # <<>>
    /\ write /\ outpath # "None"
    /\ out_file = [exists |-> TRUE, text |-> OldText]

\* C15: get_common_snp called with write=True and no outpath raises
\* ValueError before the directory is listed and before any file is read or
\* written, whether or not the directory exists or holds .bim files.
C15_ValueErrorFirst ==
    (entry = "get_common_snp" /\ write /\ outpath = "None") =>
        /\ snp_pc \in {"enter", "done"}
        /\ file_i = 1 /\ snp_sets = <<>>
        /\ common_snps = {} /\ common_list = <<>>
        /\ out_file = NoFile
        /\ snp_pc = "done" => snp_outcome = "ValueError"

\* C15 witness: ValueError was raised for a directory that does not exist.
C15_Witness ==
    /\ entry = "get_common_snp"
    /\ snp_pc = "done" /\ snp_outcome = "ValueError"
    /\ write /\ outpath = "None"
    /\ ~dir_exists

\* ValueError was raised for an existing directory with files, none a .bim
C15_NoBimWitness ==
    /\ entry = "get_common_snp"
    /\ snp_pc = "done" /\ snp_outcome = "ValueError"
    /\ dir_exists /\ dir_files # <<>>
    /\ \A k \in 1..Len(dir_files) : ~dir_files[k].bim

\* ValueError was raised for a directory with a non-empty .bim file
C15_BimWitness ==
    /\ entry = "get_common_snp"
    /\ snp_pc = "done" /\ snp_outcome = "ValueError"
    /\ \E k \in 1..Len(dir_files) : dir_files[k].bim /\ dir_files[k].ids # <<>>

\* C16: get_common_snp (past its argument check) on an existing directory
\* that lists no file whose name ends in .bim raises FileNotFoundError and
\* returns no list, having read and written nothing; a directory whose .bim
\* files are all empty is not that case: the call returns [].
C16_NoBimFilesNotFound ==
    (snp_pc = "done" /\ entry = "get_common_snp"
        /\ ~(write /\ outpath = "None") /\ dir_exists) =>
        /\ (\A k \in 1..Len(dir_files) : ~dir_files[k].bim) =>
              /\ snp_outcome = "FileNotFoundError"
              /\ file_i = 1 /\ snp_sets = <<>> /\ common_list = <<>>
              /\ OutFileUntouched
        /\ ((\E k \in 1..Len(dir_files) : dir_files[k].bim)
              /\ (\A k \in 1..Len(dir_files) : dir_files[k].ids = <<>>)
              /\ ((write /\ outpath # "None") => outpath_isdir)) =>
              /\ snp_outcome = "returned"
              /\ common_list = <<>>

\* C16 witness: FileNotFoundError was raised for a directory that lists two
\* files, neither a .bim file.
C16_Witness ==
    /\ entry = "get_common_snp"
    /\ snp_pc = "done" /\ snp_outcome = "FileNotFoundError"
    /\ dir_exists
    /\ Len(dir_files) = 2
    /\ \A k \in 1..Len(dir_files) : ~dir_files[k].bim

\* the call returned [] for a directory with only empty .bim files
C16_OnlyEmptyWitness ==
    /\ entry = "get_common_snp"
    /\ snp_pc = "done" /\ snp_outcome = "returned"
    /\ \E k \in 1..Len(dir_files) : dir_files[k].bim
    /\ \A k \in 1..Len(dir_files) : dir_files[k].ids = <<>>

\* str.splitlines() of a text: the lines between newlines, a last line
\* without a newline included
RECURSIVE SplitLinesFrom(_, _)
SplitLinesFrom(text, line) ==
    IF text = <<>> THEN (IF line = <<>> THEN <<>> ELSE << line >>)
    ELSE IF Head(text) = NewLine
         THEN << line >> \o SplitLinesFrom(Tail(text), <<>>)
         ELSE SplitLinesFrom(Tail(text), Append(line, Head(text)))

SplitLines(text) == SplitLinesFrom(text, <<>>)

\* the number of newlines of a text
NewLines(text) == Cardinality({h \in 1..Len(text) : text[h] = NewLine})

\* what C17 says of the state in which get_common_snp returns
C17_FileHoldsList ==
    (entry = "get_common_snp" /\ snp_pc = "done" /\ snp_outcome = "returned") =>
        /\ (write /\ outpath # "None") =>
              /\ out_file.exists
              /\ SplitLines(out_file.text) = common_list
              /\ NewLines(out_file.text) = Len(common_list)
              /\ out_file.text # <<>> =>
                    out_file.text[Len(out_file.text)] = NewLine
        /\ ~write => OutFileUntouched

\* C17: when write=True with an outpath, the call that returns has written
\* outpath/common_snps.txt holding exactly the returned identifiers, one per
\* line, each newline-terminated, in the returned order, so that splitting
\* the file into lines gives back the returned list; when write=False no
\* step of the call creates or modifies the file, even if an outpath is
\* given.
C17_PersistsResult ==
    /\ []C17_FileHoldsList
    /\ [][(entry = "get_common_snp" /\ ~write) => out_file' = out_file]_vars

\* C17 witness: the call returned rs10, rs2 and common_snps.txt holds
\* "rs10\nrs2\n".
C17_Witness ==
    /\ entry = "get_common_snp"
    /\ snp_pc = "done" /\ snp_outcome = "returned"
    /\ write /\ outpath # "None"
    /\ common_list = << <<1, 0>>, <<2>> >>
    /\ out_file = [exists |-> TRUE,
                   text |-> <<1, 0, NewLine, 2, NewLine>>]

\* the call returned a non-empty list without write, an outpath given and
\* the earlier common_snps.txt still in place
C17_NoWriteWitness ==
    /\ entry = "get_common_snp"
    /\ snp_pc = "done" /\ snp_outcome = "returned"
    /\ ~write /\ outpath # "None"
    /\ common_list # <<>>
    /\ out_file = [exists |-> TRUE, text |-> OldText]

\* C18: match_case_controls raises FileExistsError when filename.fam or
\* filename.eigenvec is absent; the .fam file is tested first, so the error
\* names it when both are absent; nothing is read, joined, ranked or matched
\* before the error, and no table is returned.
C18_NotFoundFirst ==
    /\ (~fam_exists \/ ~pca_exists) =>
          /\ pc \in {"idle", "start", "done"}
          /\ merged_df = <<>> /\ rankings = <<>> /\ selections = <<>>
          /\ matched_controls = {} /\ merged_df_matched = <<>>
          /\ pc = "done" =>
                /\ ~fam_exists =>
                      outcome = "FileExistsError: .fam was not found"
                /\ (fam_exists /\ ~pca_exists) =>
                      outcome = "FileExistsError: .eigenvec was not found"
    /\ (fam_exists /\ pca_exists /\ pc = "done") => outcome = "returned"

\* C18 witness: both files are absent and the error names the .fam file.
C18_Witness ==
    /\ pc = "done"
    /\ ~fam_exists /\ ~pca_exists
    /\ outcome = "FileExistsError: .fam was not found"

\* only the .eigenvec file is absent, the .fam file has rows, and the error
\* names the .eigenvec file
C18_PcaWitness ==
    /\ pc = "done"
    /\ fam_exists /\ ~pca_exists /\ Len(fam_rows) >= 2
    /\ outcome = "FileExistsError: .eigenvec was not found"

\* C19: read_fam_file with vars_to_string=True labels phenotype code 1
\* 'control', code 2 'case' and every other code 'unknown': the coding by
\* which match_case_controls partitions rows (CasePheno, ControlPheno).
C19_SamePhenoCoding ==
    (fam_outcome = "returned" /\ vars_to_string) =>
        /\ Len(fam_df) = Len(fam_file_rows)
        /\ \A k \in 1..Len(fam_df) :
              /\ fam_df[k].pheno = fam_file_rows[k].pheno
              /\ fam_df[k].pheno = ControlPheno
                    => fam_df[k].pheno_str = "control"
              /\ fam_df[k].pheno = CasePheno
                    => fam_df[k].pheno_str = "case"
              /\ fam_df[k].pheno \notin {ControlPheno, CasePheno}
                    => fam_df[k].pheno_str = "unknown"

\* the part of C19 the code meets: the codes are returned as read, and a
\* code other than 1 and 2 is labelled 'unknown'
C19_UnknownCoding ==
    (fam_outcome = "returned" /\ vars_to_string) =>
        /\ Len(fam_df) = Len(fam_file_rows)
        /\ \A k \in 1..Len(fam_df) :
              /\ fam_df[k].pheno = fam_file_rows[k].pheno
              /\ fam_df[k].pheno \notin {ControlPheno, CasePheno}
                    <=> fam_df[k].pheno_str = "unknown"

\* a file with a code-1 row and a code-2 row was read with labels
C19_Reached ==
    /\ fam_outcome = "returned" /\ vars_to_string
    /\ Len(fam_df) = 2
    /\ fam_df[1].pheno = ControlPheno
    /\ fam_df[2].pheno = CasePheno

\* merge_list.txt is as it was before the call
MergeListUntouched ==
    merge_list \in {NoFile, [exists |-> TRUE, text |-> OldMergeList]}

\* the file system and the external tool are as they were before the call
NothingTouched ==
    /\ created_dirs = {}
    /\ MergeListUntouched
    /\ out_file \in {NoFile, [exists |-> TRUE, text |-> OldText]}
    /\ commands = <<>>

\* C20: a not-found failure leaves the file system unchanged. When
\* merge_files is called on an existing directory with no .bed files,
\* FileNotFoundError is raised with no directory created, merge_list.txt and
\* common_snps.txt not written, and the external tool not invoked.
C20_NotFoundLeavesFilesystem ==
    (entry = "merge_files" /\ snp_pc = "done"
        /\ dir_exists /\ "filepath" \notin created_dirs
        /\ pgen_files = {}) =>
        /\ snp_outcome = "FileNotFoundError"
        /\ NothingTouched

\* the part of C20 about get_common_snp: on an existing directory with no
\* .bim file it raises FileNotFoundError with nothing created, written or run
C20_GetCommonSnpPart ==
    (entry = "get_common_snp" /\ snp_pc = "done"
        /\ ~(write /\ outpath = "None") /\ dir_exists
        /\ \A k \in 1..Len(dir_files) : ~dir_files[k].bim) =>
        /\ snp_outcome = "FileNotFoundError"
        /\ NothingTouched
        /\ OutFileUntouched

\* the part of C20 that merge_files meets: without .bed files it raises
\* FileNotFoundError, writes neither file and does not run the tool
C20_NoFileWritten ==
    (entry = "merge_files" /\ snp_pc = "done"
        /\ dir_exists /\ "filepath" \notin created_dirs
        /\ pgen_files = {}) =>
        /\ snp_outcome = "FileNotFoundError"
        /\ MergeListUntouched
        /\ out_file \in {NoFile, [exists |-> TRUE, text |-> OldText]}
        /\ commands = <<>>

\* merge_files ran the tool with --extract after writing both files
C20_MergedReached ==
    /\ entry = "merge_files"
    /\ snp_pc = "done" /\ snp_outcome = "returned"
    /\ Len(commands) = 1 /\ Len(commands[1]) = 10
    /\ merge_list.exists /\ out_file.exists /\ common_list # <<>>
    /\ created_dirs = {"out"}

\* the keys accepted by the cases before case i
MatchedBefore(i) == UNION {selections[h] : h \in 1..(i - 1)}

\* the keys no case before case i has accepted, keys being ControlKeys
LeftFor(keys, i) == keys \ MatchedBefore(i)

\* C21: in unique mode, a case that finds fewer than n_controls unaccepted
\* controls receives all of them, every later case receives none, and the
\* call raises nothing: it returns a table that holds every case (and, all
\* controls being accepted by then, every control).
C21_SilentExhaustion ==
    (pc = "done" /\ unique_controls /\ fam_exists /\ pca_exists) =>
        LET keys == ControlKeys
        IN  /\ outcome = "returned"
            /\ Len(selections) = Len(cases)
            /\ \A i \in 1..Len(selections) :
                  Cardinality(LeftFor(keys, i)) < n_controls =>
                      /\ selections[i] = LeftFor(keys, i)
                      /\ \A h \in (i + 1)..Len(selections) :
                            selections[h] = {}
                      /\ \A k \in CaseRowsOf(merged_df)
                                    \cup ControlRowsOf(merged_df) :
                            OccursIn(merged_df[k], merged_df_matched)

\* C21 witness: a unique call with n_controls = 2 returned for three cases
\* and one control: the first case received the one control, the others
\* none.
C21_Witness ==
    /\ Returned /\ unique_controls
    /\ n_controls = 2
    /\ Len(cases) = 3 /\ Len(controls) = 1
    /\ Cardinality(selections[1]) = 1
    /\ selections[2] = {} /\ selections[3] = {}

\* C22 as stated: every entry of the case-by-control distance matrix of a
\* call is non-negative and none is zero.
C22_Original ==
    Returned =>
        LET dist == cases_pcs_dist
        IN  \A i \in 1..Len(dist) : \A j \in 1..Len(dist[i]) :
                dist[i][j] > 0

\* C22: every entry of the case-by-control distance matrix of a call is
\* non-negative,
\* and an entry is zero exactly when the case and the control have the same
\* principal components, which two different samples may have.
C22_NonNegative ==
    Returned =>
        LET dist == cases_pcs_dist
            cs == cases
            ks == controls
        IN  \A i \in 1..Len(cs) : \A j \in 1..Len(ks) :
                /\ dist[i][j] >= 0
                /\ dist[i][j] = 0 <=> cs[i].pc1 = ks[j].pc1
                /\ <<cs[i].fid, cs[i].iid>> # <<ks[j].fid, ks[j].iid>>

\* C22 witness: a call returned whose matrix has a zero entry and a
\* positive one.
C22_Witness ==
    /\ Returned
    /\ \E i \in 1..Len(cases) : \E j, k \in 1..Len(controls) :
          cases_pcs_dist[i][j] = 0 /\ cases_pcs_dist[i][k] > 0

\* C26: in unique mode with n_controls >= 1 and controls of pairwise
\* distinct keys, the number of matched controls is
\* min(n_controls * nCases, nControls) whatever the distances and rankings:
\* a control is left unmatched only when every case received n_controls.
C26_UniqueCount ==
    (Returned /\ unique_controls /\ n_controls >= 1 /\ DistinctControlKeys) =>
        /\ Cardinality(matched_controls) =
              Min(n_controls * Len(cases), Len(controls))
        /\ Cardinality(OutControlKeys) =
              Min(n_controls * Len(cases), Len(controls))
        /\ matched_controls # ControlKeys =>
              \A i \in 1..Len(selections) :
                  Cardinality(selections[i]) = n_controls

\* C26 witness: two cases rank the same control first and the call with
\* n_controls = 1 returned with both controls matched.
C26_Witness ==
    /\ Returned /\ unique_controls /\ n_controls = 1 /\ DistinctControlKeys
    /\ Len(cases) = 2 /\ Len(controls) = 2
    /\ rankings[1][1] = rankings[2][1]
    /\ Cardinality(matched_controls) = 2

\* one case took two of three controls and the third is left unmatched
C26_LeftoverWitness ==
    /\ Returned /\ unique_controls /\ n_controls = 2 /\ DistinctControlKeys
    /\ Len(cases) = 1 /\ Len(controls) = 3
    /\ Cardinality(matched_controls) = 2

\* The matched set either branch computes from the rankings of the call that
\* returned, for the number n of controls per case.
MatchedWith(unique, n) ==
    IF unique THEN UniqueFold(rankings, 1, {}, n)
    ELSE NonUniqueKeys(rankings, n)

\* C27: for the same samples, the same rankings and n_controls >= 1, the
\* controls matched in unique mode include those matched in non-unique mode,
\* and with exactly one case the two sets are equal.
C27_UniqueCoversNonUnique ==
    (Returned /\ n_controls >= 1) =>
        /\ matched_controls = MatchedWith(unique_controls, n_controls)
        /\ MatchedWith(FALSE, n_controls) \subseteq MatchedWith(TRUE, n_controls)
        /\ Len(cases) = 1 =>
              MatchedWith(TRUE, n_controls) = MatchedWith(FALSE, n_controls)

\* C27 holds where the controls have pairwise distinct keys
C27_DistinctKeys ==
    DistinctControlKeys => C27_UniqueCoversNonUnique

\* a call where unique mode matches strictly more than non-unique mode
C27_StrictReached ==
    /\ Returned /\ n_controls >= 1 /\ DistinctControlKeys
    /\ MatchedWith(TRUE, n_controls) # MatchedWith(FALSE, n_controls)

\* C28: for the same samples, the same rankings and the same mode, every
\* control matched with n_controls = n >= 1 is matched with n + 1.
C28_MonotoneInNControls ==
    (Returned /\ n_controls >= 1) =>
        /\ matched_controls = MatchedWith(unique_controls, n_controls)
        /\ matched_controls \subseteq MatchedWith(unique_controls, n_controls + 1)

\* C28 witness: a unique call returned, and one more control per case would
\* match strictly more controls.
C28_Witness ==
    /\ Returned /\ unique_controls /\ n_controls = 1
    /\ Len(cases) >= 1
    /\ matched_controls # {}
    /\ matched_controls # MatchedWith(TRUE, 2)

\* the same in non-unique mode
C28_NonUniqueWitness ==
    /\ Returned /\ ~unique_controls /\ n_controls = 1
    /\ Len(cases) = 2
    /\ matched_controls # {}
    /\ matched_controls # MatchedWith(FALSE, 2)

\* every row of the joined table is a different (fid, iid) pair
DistinctPairs ==
    \A k, l \in 1..Len(merged_df) :
        (merged_df[k].fid = merged_df[l].fid /\ merged_df[k].iid = merged_df[l].iid)
            => k = l

\* every row of the joined table has a different composite key
DistinctKeys ==
    \A k, l \in 1..Len(merged_df) :
        merged_df[k].fid_iid = merged_df[l].fid_iid => k = l

\* C29: when every sample is a different (fid, iid) pair, every row of the
\* returned table is a case, or a control whose key some case selected; no
\* row with another phenotype appears.
C29_OnlyCasesAndSelected ==
    (Returned /\ DistinctPairs) =>
        \A k \in 1..Len(merged_df_matched) :
            \/ IsCase(merged_df_matched[k])
            \/ /\ IsControl(merged_df_matched[k])
               /\ \E i \in 1..Len(selections) :
                     merged_df_matched[k].fid_iid \in selections[i]

\* C29 holds where the composite keys of the rows are pairwise distinct
C29_DistinctKeys ==
    DistinctKeys => C29_OnlyCasesAndSelected

\* a call returned a table with controls and left a control out
C29_FilteredReached ==
    /\ Returned /\ DistinctKeys
    /\ ControlRowsOf(merged_df_matched) # {}
    /\ Cardinality(ControlRowsOf(merged_df_matched)) < Len(controls)

\* some threshold of the qc call is out of its range
InvalidThreshold == MafInvalid \/ GenoMissInvalid \/ IndvMissInvalid

\* the FileNotFoundError messages of qc
QcNotFoundErrors ==
    {"FileNotFoundError: " \o f \o Suffixes[k] \o " not found" :
        f \in Filenames, k \in 1..Len(Suffixes)}

\* C23: qc tests the thresholds first. With a maf outside (0, 0.5) or a
\* geno_miss or indv_miss outside [0, 1] it raises ValueError whether the
\* input files exist or not, writes no .rmvars or .rmindv file and runs no
\* command; a missing .bim, .bed or .fam raises FileNotFoundError only when
\* the thresholds are valid, and then it does.
C23_ThresholdsFirst ==
    /\ InvalidThreshold =>
          /\ ~rm_vars_file.exists /\ ~rm_indv_file.exists
          /\ qc_commands = <<>>
          /\ qc_pc = "done" =>
                qc_outcome \in {"ValueError: maf not in range (0,1)",
                                "ValueError: geno_miss not in range (0,1)",
                                "ValueError: pheno_miss not in range (0,1)"}
    /\ qc_outcome \in QcNotFoundErrors =>
          /\ ~InvalidThreshold
          /\ qc_files # SeqToSet(Suffixes)
    /\ (qc_pc = "done" /\ ~InvalidThreshold /\ qc_files # SeqToSet(Suffixes)) =>
          qc_outcome \in QcNotFoundErrors

\* C23 witness: a call with an invalid maf, variants to exclude and no input
\* file at all has raised ValueError.
C23_Witness ==
    /\ qc_pc = "done"
    /\ MafInvalid /\ qc_files = {} /\ exclude_vars # <<>>
    /\ qc_outcome = "ValueError: maf not in range (0,1)"

\* a call with valid thresholds and a missing .bed file has raised
\* FileNotFoundError
C23_NotFoundWitness ==
    /\ qc_pc = "done"
    /\ maf # <<>> /\ geno_miss # <<>>
    /\ qc_files = {".bim", ".fam"}
    /\ qc_outcome \in QcNotFoundErrors

\* the flag and the value of an optional argument that is given
IndvMissArgs ==
    IF indv_miss # <<>> THEN <<"--indv-miss", StrOf(indv_miss[1])>> ELSE <<>>
GenoMissArgs ==
    IF geno_miss # <<>> THEN <<"--geno-miss", StrOf(geno_miss[1])>> ELSE <<>>
MafArgs ==
    IF maf # <<>> THEN <<"--maf", StrOf(maf[1])>> ELSE <<>>
RmVarsArgs ==
    IF exclude_vars # <<>> THEN <<"--rm-vars", rm_vars_file.path>> ELSE <<>>
RmIndvArgs ==
    IF exclude_indvs # <<>> THEN <<"--rm-indv", rm_indv_file.path>> ELSE <<>>

\* the number of optional arguments that are given
GivenArgs ==
    Cardinality({k \in 1..5 :
        <<indv_miss, geno_miss, maf, exclude_vars, exclude_indvs>>[k] # <<>>})

\* C24: the command qc runs is bash, the script, --bfile, filename,
\* --outpath, outpath, followed in the order --indv-miss, --geno-miss,
\* --maf, --rm-vars, --rm-indv by each flag with its value exactly when the
\* argument is not None, a threshold of 0 included; with no optional
\* argument it has six elements.
C24_Command ==
    qc_commands # <<>> =>
        /\ Len(qc_commands) = 1
        /\ qc_commands[1] =
              <<"bash", QcScript, "--bfile", qc_filename, "--outpath",
                QcOutpath>>
                  \o IndvMissArgs \o GenoMissArgs \o MafArgs
                  \o RmVarsArgs \o RmIndvArgs
        /\ Len(qc_commands[1]) = 6 + 2 * GivenArgs
        /\ GivenArgs = 0 => Len(qc_commands[1]) = 6

\* C24 witness: a call with geno_miss = 0, variants to exclude and no maf
\* has run its command.
C24_Witness ==
    /\ qc_outcome = "returned"
    /\ geno_miss = <<0>> /\ maf = <<>> /\ indv_miss # <<>>
    /\ exclude_vars # <<>> /\ exclude_indvs = <<>>
    /\ Len(qc_commands[1]) = 12

\* a call with no optional argument has run a command of six elements
C24_BaseWitness ==
    /\ qc_outcome = "returned"
    /\ GivenArgs = 0
    /\ Len(qc_commands[1]) = 6

\* the FileNotFoundError messages of run_logistic_regression
LrNotFoundErrors ==
    {"FileNotFoundError: File " \o LrFilename \o LrSuffixes[k] \o " not found" :
        k \in 1..Len(LrSuffixes)}

\* what holds at every moment of a run_logistic_regression call
C25_Always ==
    /\ Len(lr_commands) <= 1
    /\ lr_files # SeqToSet(LrSuffixes) =>
          /\ lr_commands = <<>>
          /\ lr_pc = "done" => lr_outcome \in LrNotFoundErrors
    /\ lr_outcome = "returned" =>
          /\ Len(lr_commands) = 1
          /\ lr_commands[1] = LrCommand
          /\ ~temp_covars.exists /\ ~temp_pheno.exists

\* what holds of every step of a run_logistic_regression call
C25_Step ==
    /\ lr_files # SeqToSet(LrSuffixes) =>
          temp_covars' = temp_covars /\ temp_pheno' = temp_pheno
    /\ lr_commands' # lr_commands =>
          /\ temp_covars = [exists |-> TRUE, text |-> covars_df]
          /\ temp_pheno = [exists |-> TRUE, text |-> pheno_df]
          /\ temp_covars' = temp_covars /\ temp_pheno' = temp_pheno
    /\ (temp_covars' # temp_covars /\ temp_covars'.exists) =>
          lr_commands = <<>> /\ lr_pc = "start"
    /\ (temp_pheno' # temp_pheno /\ temp_pheno'.exists) =>
          lr_commands = <<>> /\ temp_covars.exists
    /\ (temp_covars.exists /\ ~temp_covars'.exists) =>
          Len(lr_commands) = 1 /\ temp_pheno.exists
    /\ (temp_pheno.exists /\ ~temp_pheno'.exists) =>
          Len(lr_commands) = 1 /\ ~temp_covars.exists

\* C25: run_logistic_regression raises FileNotFoundError, writing nothing,
\* when the .bim, .bed, .fam or .eigenvec file is missing; otherwise it
\* writes the covariates and the phenotype file, runs the script once while
\* both exist, then removes the covariates and the phenotype file, and
\* whatever the exit status of the script the call returns with neither
\* file left.
C25_FixedOrder ==
    /\ []C25_Always
    /\ [][C25_Step]_vars
    /\ \A st \in {0, 1} :
          (lr_commands # <<>> /\ lr_status = st) ~>
              (/\ lr_outcome = "returned" /\ lr_status = st
               /\ ~temp_covars.exists /\ ~temp_pheno.exists)

\* C25 witness: a call whose script failed has returned.
C25_Witness ==
    /\ lr_outcome = "returned" /\ lr_status = 1
    /\ Len(lr_commands) = 1
    /\ ~temp_covars.exists /\ ~temp_pheno.exists

\* a call with the .eigenvec file missing has raised FileNotFoundError
C25_NotFoundWitness ==
    /\ lr_pc = "done"
    /\ lr_files = SeqToSet(Suffixes)
    /\ lr_outcome \in LrNotFoundErrors
    /\ temp_covars = OldTsv

\* the permutations of the positions of a listing of m files
ListingPerms == [m \in 0..MaxFiles |-> Perms(m)]

\* C30: how a get_common_snp call ends does not depend on the order in which
\* the directory lists its files: under every order it raises
\* MultiAllelicError when some non-empty .bim file repeats an identifier,
\* and otherwise ends the same way with the same list.
C30_ListingOrderIndependent ==
    (snp_pc = "done" /\ ReadsDirectory) =>
        LET listing == dir_files
        IN  /\ \A p \in ListingPerms[Len(listing)] :
                  GetCommonSnpOf(Permuted(listing, p)) =
                      [outcome |-> snp_outcome, list |-> common_list]
            /\ RepeatingFiles(listing) # {} =>
                  snp_outcome = "MultiAllelicError"

\* C30 witness: the call raised MultiAllelicError on the third file, which
\* repeats an identifier, after two files that have no identifier in common.
C30_Witness ==
    /\ snp_pc = "done" /\ ReadsDirectory
    /\ snp_outcome = "MultiAllelicError"
    /\ Len(dir_files) = 3 /\ file_i = 3
    /\ Len(snp_sets) = 2 /\ snp_sets[1] \cap snp_sets[2] = {}

\* the call returned a non-empty list for two files that list their
\* identifiers in different orders
C30_ReturnedWitness ==
    /\ snp_pc = "done" /\ ReadsDirectory
    /\ snp_outcome = "returned"
    /\ Len(common_list) = 2
    /\ Len(bim_files) >= 2 /\ bim_files[1].ids # bim_files[2].ids

====
